---------------------------- MODULE Spec2Model ----------------------------
(***************************************************************************)
(* Key-event state machine of the calculator (src/calculator.py).          *)
(*                                                                         *)
(* Strings are sequences of one-character strings.  Python floats are      *)
(* IEEE-754 binary64 values, modelled exactly: a finite value is           *)
(* (-1)^neg * m * 2^e with m an arbitrary-precision natural number, and    *)
(* every conversion and arithmetic operation rounds to nearest, ties to    *)
(* even, as the interpreter does.                                          *)
(***************************************************************************)
EXTENDS Integers, Sequences, FiniteSets, TLC

(***************************************************************************)
(* Arbitrary-precision naturals: little-endian sequences of limbs in base  *)
(* 2^15, without high zero limbs; <<>> is zero.  They carry the 53-bit     *)
(* significands and the exact intermediate results of float operations.    *)
(***************************************************************************)
LIMB_BITS == 15
BASE == 2 ^ LIMB_BITS

Max(a, b) == IF a >= b THEN a ELSE b

RECURSIVE BigNorm(_)
BigNorm(a) ==
    IF a = <<>> THEN <<>>
    ELSE IF a[Len(a)] = 0 THEN BigNorm(SubSeq(a, 1, Len(a) - 1))
    ELSE a

RECURSIVE BigFromInt(_)
BigFromInt(n) ==
    IF n = 0 THEN <<>> ELSE <<n % BASE>> \o BigFromInt(n \div BASE)

Limb(a, i) == IF i <= Len(a) THEN a[i] ELSE 0

RECURSIVE BigCmpFrom(_, _, _)
BigCmpFrom(a, b, i) ==
    IF i = 0 THEN 0
    ELSE IF a[i] > b[i] THEN 1
    ELSE IF a[i] < b[i] THEN -1
    ELSE BigCmpFrom(a, b, i - 1)

BigCmp(a, b) ==
    IF Len(a) > Len(b) THEN 1
    ELSE IF Len(a) < Len(b) THEN -1
    ELSE BigCmpFrom(a, b, Len(a))

RECURSIVE BigAddFrom(_, _, _, _)
BigAddFrom(a, b, i, carry) ==
    IF i > Len(a) /\ i > Len(b)
    THEN IF carry = 0 THEN <<>> ELSE <<carry>>
    ELSE LET s == Limb(a, i) + Limb(b, i) + carry
         IN  <<s % BASE>> \o BigAddFrom(a, b, i + 1, s \div BASE)

BigAdd(a, b) == BigAddFrom(a, b, 1, 0)

RECURSIVE BigSubFrom(_, _, _, _)
BigSubFrom(a, b, i, borrow) ==
    IF i > Len(a) THEN <<>>
    ELSE LET s == a[i] - Limb(b, i) - borrow
         IN  IF s < 0 THEN <<s + BASE>> \o BigSubFrom(a, b, i + 1, 1)
             ELSE <<s>> \o BigSubFrom(a, b, i + 1, 0)

\* a - b for a >= b
BigSub(a, b) == BigNorm(BigSubFrom(a, b, 1, 0))

RECURSIVE BigMulSmallFrom(_, _, _, _)
BigMulSmallFrom(a, k, i, carry) ==
    IF i > Len(a)
    THEN IF carry = 0 THEN <<>> ELSE <<carry>>
    ELSE LET s == a[i] * k + carry
         IN  <<s % BASE>> \o BigMulSmallFrom(a, k, i + 1, s \div BASE)

\* a * k for 0 <= k <= BASE
BigMulSmall(a, k) == IF k = 0 THEN <<>> ELSE BigMulSmallFrom(a, k, 1, 0)

Zeros(n) == [i \in 1..n |-> 0]

RECURSIVE BigMulFrom(_, _, _)
BigMulFrom(a, b, i) ==
    IF i > Len(b) THEN <<>>
    ELSE BigAdd(Zeros(i - 1) \o BigMulSmall(a, b[i]), BigMulFrom(a, b, i + 1))

BigMul(a, b) == IF a = <<>> \/ b = <<>> THEN <<>> ELSE BigNorm(BigMulFrom(a, b, 1))

\* quotient limbs (high limb first pass) and remainder of a divided by k, 0 < k <= BASE
RECURSIVE BigDivSmallFrom(_, _, _, _)
BigDivSmallFrom(a, k, i, rem) ==
    IF i = 0 THEN [q |-> <<>>, r |-> rem]
    ELSE LET cur == rem * BASE + a[i]
             rest == BigDivSmallFrom(a, k, i - 1, cur % k)
         IN  [q |-> rest.q \o <<cur \div k>>, r |-> rest.r]

BigDivSmall(a, k) ==
    LET res == BigDivSmallFrom(a, k, Len(a), 0)
    IN  [q |-> BigNorm(res.q), r |-> res.r]

RECURSIVE IntBitLen(_)
IntBitLen(n) == IF n = 0 THEN 0 ELSE 1 + IntBitLen(n \div 2)

BigBitLen(a) ==
    IF a = <<>> THEN 0 ELSE LIMB_BITS * (Len(a) - 1) + IntBitLen(a[Len(a)])

\* a * 2^n
BigShl(a, n) ==
    IF a = <<>> THEN <<>>
    ELSE Zeros(n \div LIMB_BITS) \o BigMulSmall(a, 2 ^ (n % LIMB_BITS))

\* floor(a / 2^n)
BigShr(a, n) ==
    LET drop == n \div LIMB_BITS
    IN  IF drop >= Len(a) THEN <<>>
        ELSE BigDivSmall(SubSeq(a, drop + 1, Len(a)), 2 ^ (n % LIMB_BITS)).q

\* 5^n, by repeated squaring
RECURSIVE BigPow5(_)
BigPow5(n) ==
    IF n <= 6 THEN <<5 ^ n>>
    ELSE LET h == BigPow5(n \div 2)
         IN  BigMulSmall(BigMul(h, h), IF n % 2 = 1 THEN 5 ELSE 1)

\* number of trailing zero bits of a # 0
RECURSIVE IntTrailingZeros(_)
IntTrailingZeros(n) == IF n % 2 = 1 THEN 0 ELSE 1 + IntTrailingZeros(n \div 2)

RECURSIVE BigTrailingZeros(_, _)
BigTrailingZeros(a, i) ==
    IF a[i] = 0 THEN LIMB_BITS + BigTrailingZeros(a, i + 1)
    ELSE IntTrailingZeros(a[i])



(***************************************************************************)
(* binary64 values.  cls is "fin", "inf" or "nan"; a finite value is       *)
(* (-1)^neg * m * 2^e with m odd, or m = <<>> (a signed zero, e = 0).      *)
(***************************************************************************)
MANT_BITS == 53
MAX_BITS == 1024
MIN_EXP == -1074
QLIMBS == (MANT_BITS + 2) \div LIMB_BITS + 1

FZero(neg) == [cls |-> "fin", neg |-> neg, m |-> <<>>, e |-> 0]
FInf(neg) == [cls |-> "inf", neg |-> neg, m |-> <<>>, e |-> 0]
FNan == [cls |-> "nan", neg |-> FALSE, m |-> <<>>, e |-> 0]
ValueError == [cls |-> "ValueError"]

IsZero(x) == x.cls = "fin" /\ x.m = <<>>

\* the finite value m * 2^e (already within 53 bits), overflowing to infinity
MakeFinite(neg, m, e) ==
    IF m = <<>> THEN FZero(neg)
    ELSE IF BigBitLen(m) + e > MAX_BITS THEN FInf(neg)
    ELSE LET z == BigTrailingZeros(m, 1)
         IN  [cls |-> "fin", neg |-> neg, m |-> BigShr(m, z), e |-> e + z]

\* round (q + fraction) * 2^e to nearest, ties to even; sticky says the
\* fraction below q is non-zero (q then has more than 53 bits)
RoundBig(neg, q, sticky, e) ==
    LET Rounded(hi, c, e1) ==
            MakeFinite(neg, IF c > 0 \/ (c = 0 /\ (sticky \/ (hi # <<>> /\ hi[1] % 2 = 1)))
                            THEN BigAdd(hi, <<1>>) ELSE hi, e1)
        Halved(t, hi) ==
            Rounded(hi, BigCmp(BigSub(q, BigShl(hi, t)), BigShl(<<1>>, t - 1)), e + t)
        Shifted(t) == IF t = 0 THEN MakeFinite(neg, q, e) ELSE Halved(t, BigShr(q, t))
    IN  Shifted(Max(Max(BigBitLen(q) - MANT_BITS, MIN_EXP - e), 0))

\* floor(r * BASE / d) for r < d, found bit by bit from the top
RECURSIVE DivLimb(_, _, _, _)
DivLimb(rb, d, bit, acc) ==
    IF bit < 0 THEN acc
    ELSE IF BigCmp(BigMulSmall(d, acc + 2 ^ bit), rb) <= 0
         THEN DivLimb(rb, d, bit - 1, acc + 2 ^ bit)
         ELSE DivLimb(rb, d, bit - 1, acc)

\* long division of r / d (r < d): the first k limbs of the fraction, low limb
\* first, and whether a remainder is left
RECURSIVE DivLimbs(_, _, _)
DivLimbs(r, d, k) ==
    IF k = 0 THEN [q |-> <<>>, sticky |-> r # <<>>]
    ELSE LET rb == IF r = <<>> THEN <<>> ELSE <<0>> \o r
             ql == DivLimb(rb, d, LIMB_BITS - 1, 0)
             rest == DivLimbs(BigSub(rb, BigMulSmall(d, ql)), d, k - 1)
         IN  [q |-> rest.q \o <<ql>>, sticky |-> rest.sticky]

\* the double nearest to (n / d) * 2^e, for n, d # 0
DivRound(neg, n, d, e) ==
    LET Quotient(q0, res, sh) ==
            RoundBig(neg, BigNorm(res.q \o <<q0>>), res.sticky,
                     e + sh - QLIMBS * LIMB_BITS)
        Divided(n1, d1, q0, sh) ==
            Quotient(q0, DivLimbs(IF q0 = 1 THEN BigSub(n1, d1) ELSE n1, d1, QLIMBS), sh)
        Aligned(n1, d1, sh) == Divided(n1, d1, IF BigCmp(n1, d1) >= 0 THEN 1 ELSE 0, sh)
        Shifted(sh) == Aligned(IF sh < 0 THEN BigShl(n, -sh) ELSE n,
                               IF sh > 0 THEN BigShl(d, sh) ELSE d, sh)
    IN  Shifted(BigBitLen(n) - BigBitLen(d))

\* magnitude addition / subtraction of finite non-zero values
FAddFinite(a, b) ==
    LET Sum(A, B, c, e) ==
            IF a.neg # b.neg /\ c = 0 THEN FZero(FALSE)
            ELSE RoundBig(IF a.neg = b.neg \/ c > 0 THEN a.neg ELSE b.neg,
                          IF a.neg = b.neg THEN BigAdd(A, B)
                          ELSE IF c > 0 THEN BigSub(A, B) ELSE BigSub(B, A),
                          FALSE, e)
        Scaled(A, B, e) == Sum(A, B, BigCmp(A, B), e)
        Common(e) == Scaled(BigShl(a.m, a.e - e), BigShl(b.m, b.e - e), e)
    IN  Common(IF a.e <= b.e THEN a.e ELSE b.e)

FAdd(a, b) ==
    IF a.cls = "nan" \/ b.cls = "nan" THEN FNan
    ELSE IF a.cls = "inf" THEN (IF b.cls = "inf" /\ a.neg # b.neg THEN FNan ELSE a)
    ELSE IF b.cls = "inf" THEN b
    ELSE IF IsZero(a) /\ IsZero(b) THEN FZero(a.neg /\ b.neg)
    ELSE IF IsZero(a) THEN b
    ELSE IF IsZero(b) THEN a
    ELSE FAddFinite(a, b)

FSub(a, b) == FAdd(a, IF b.cls = "nan" THEN b ELSE [b EXCEPT !.neg = ~@])

FMul(a, b) ==
    LET neg == (a.neg # b.neg)
    IN  IF a.cls = "nan" \/ b.cls = "nan" THEN FNan
        ELSE IF a.cls = "inf" \/ b.cls = "inf"
             THEN (IF IsZero(a) \/ IsZero(b) THEN FNan ELSE FInf(neg))
        ELSE IF IsZero(a) \/ IsZero(b) THEN FZero(neg)
        ELSE RoundBig(neg, BigMul(a.m, b.m), FALSE, a.e + b.e)

\* a / b for b # 0
FDiv(a, b) ==
    LET neg == (a.neg # b.neg)
    IN  IF a.cls = "nan" \/ b.cls = "nan" THEN FNan
        ELSE IF a.cls = "inf" THEN (IF b.cls = "inf" THEN FNan ELSE FInf(neg))
        ELSE IF b.cls = "inf" THEN FZero(neg)
        ELSE IF IsZero(a) THEN FZero(neg)
        ELSE DivRound(neg, a.m, b.m, a.e - b.e)

(***************************************************************************)
(* float(str): the decimal literal grammar of the interpreter, correctly   *)
(* rounded.  Any other text raises ValueError.                             *)
(***************************************************************************)
DigitChars == <<"0", "1", "2", "3", "4", "5", "6", "7", "8", "9">>
IsDigit(c) == \E i \in 1..10 : DigitChars[i] = c
DigitVal(c) == (CHOOSE i \in 1..10 : DigitChars[i] = c) - 1

\* str.isdigit(): the string is not empty and each of its characters is a
\* digit.  Among the characters a string can hold here (Latin-1) the digits
\* are the ten decimal ones and the superscripts, which are digits that
\* int() and float() do not accept.
isdigit(s) ==
    LET Digit(c) == IsDigit(c) \/ c \in {"²", "³", "¹"}
    IN  /\ Len(s) > 0
        /\ IF Len(s) = 1 THEN Digit(s)
           ELSE \A i \in 1..Len(s) : Digit(SubSeq(s, i, i))

\* index just after the run of digits that starts at p
RECURSIVE SpanDigits(_, _)
SpanDigits(s, p) ==
    IF p <= Len(s) /\ IsDigit(s[p]) THEN SpanDigits(s, p + 1) ELSE p

\* the natural number written by the first n digits of ds (numbers 0..9),
\* taken four digits at a time
RECURSIVE DecToBig(_, _)
DecToBig(ds, n) ==
    IF n = 0 THEN <<>>
    ELSE IF n >= 4
    THEN BigAdd(BigMulSmall(DecToBig(ds, n - 4), 10000),
                BigFromInt(ds[n - 3] * 1000 + ds[n - 2] * 100 + ds[n - 1] * 10 + ds[n]))
    ELSE BigAdd(BigMulSmall(DecToBig(ds, n - 1), 10), BigFromInt(ds[n]))

StrToDigits(s) == [i \in 1..Len(s) |-> DigitVal(s[i])]

RECURSIVE DigitsToInt(_, _, _)
DigitsToInt(s, from, to) ==
    IF to < from THEN 0
    ELSE DigitsToInt(s, from, to - 1) * 10 + DigitVal(s[to])

\* digits * 10^x, correctly rounded
DecimalToFloat(neg, digits, x) ==
    IF digits = <<>> THEN FZero(neg)
    ELSE IF x >= 0 THEN RoundBig(neg, BigMul(digits, BigPow5(x)), FALSE, x)
    ELSE DivRound(neg, digits, BigPow5(-x), x)

\* the literal a string spells: infinity, nan, the decimal mant * 10^x
\* (cls "dec"), or none (ValueError).  float() drops the white space around
\* the literal and the single underscores between two digits, and reads
\* inf, infinity and nan in either case.
ScanFloat(text) ==
    LET \* space, \t, \n, \r, \f, then the vertical tab \x0b, the next line
        \* U+0085 and the no-break space U+00A0, written as themselves
        Space(c) == c \in {" ", "\t", "\n", "\r", "\f", "", "", " "}
        RECURSIVE First(_), Last(_, _)
        First(i) == IF i <= Len(text) /\ Space(text[i]) THEN First(i + 1) ELSE i
        Last(i, j) == IF j > i /\ Space(text[j]) THEN Last(i, j - 1) ELSE j
        literal == SubSeq(text, First(1), Last(First(1), Len(text)))
        Grouped(i) == /\ i > 1 /\ IsDigit(literal[i - 1])
                      /\ i < Len(literal) /\ IsDigit(literal[i + 1])
        underscores == \A i \in 1..Len(literal) : literal[i] = "_" => Grouped(i)
        NoUnderscore(c) == c # "_"
        s == SelectSeq(literal, NoUnderscore)
        Lower(c) == CASE c = "I" -> "i" [] c = "N" -> "n" [] c = "F" -> "f"
                      [] c = "T" -> "t" [] c = "Y" -> "y" [] c = "A" -> "a"
                      [] OTHER -> c
        neg == s # <<>> /\ s[1] = "-"
        p0 == IF s # <<>> /\ s[1] \in {"-", "+"} THEN 2 ELSE 1
        body == SubSeq(s, p0, Len(s))
        Value(mant, scale, expNeg, expVal) ==
            [cls |-> "dec", neg |-> neg, mant |-> mant,
             x |-> (IF expNeg THEN -expVal ELSE expVal) - scale]
        \* the exponent digits are s[x0 .. p3 - 1]
        ExponentEnd(mant, scale, hasExp, expNeg, x0, p3) ==
            IF mant = <<>> \/ (hasExp /\ p3 = x0) \/ p3 <= Len(s) THEN ValueError
            ELSE Value(mant, scale, expNeg,
                       IF hasExp THEN DigitsToInt(s, x0, p3 - 1) ELSE 0)
        ExponentStart(mant, scale, p2, hasExp, expNeg, x0) ==
            ExponentEnd(mant, scale, hasExp, expNeg, x0,
                        IF hasExp THEN SpanDigits(s, x0) ELSE p2)
        Exponent(mant, scale, p2, hasExp) ==
            ExponentStart(mant, scale, p2, hasExp,
                          hasExp /\ p2 + 1 <= Len(s) /\ s[p2 + 1] = "-",
                          IF hasExp /\ p2 + 1 <= Len(s) /\ s[p2 + 1] \in {"-", "+"}
                          THEN p2 + 2 ELSE p2 + 1)
        \* the fraction digits are s[f0 .. p2 - 1]
        FractionEnd(p1, f0, p2) ==
            Exponent(SubSeq(s, p0, p1 - 1) \o SubSeq(s, f0, p2 - 1), p2 - f0, p2,
                     p2 <= Len(s) /\ s[p2] \in {"e", "E"})
        Fraction(p1, f0) == FractionEnd(p1, f0, SpanDigits(s, f0))
        \* the integer digits are s[p0 .. p1 - 1]
        IntegerEnd(p1) == Fraction(p1, IF p1 <= Len(s) /\ s[p1] = "." THEN p1 + 1 ELSE p1)
        word == [i \in 1..Len(body) |-> Lower(body[i])]
    IN  IF ~underscores THEN ValueError
        ELSE IF word \in {<<"i", "n", "f">>, <<"i", "n", "f", "i", "n", "i", "t", "y">>}
        THEN FInf(neg)
        ELSE IF word = <<"n", "a", "n">> THEN FNan
        ELSE IntegerEnd(SpanDigits(s, p0))

ParseFloat(s) ==
    LET Converted(d) ==
            IF d.cls # "dec" THEN d
            ELSE DecimalToFloat(d.neg, BigNorm(DecToBig(StrToDigits(d.mant), Len(d.mant))),
                                d.x)
    IN  Converted(ScanFloat(s))

(***************************************************************************)
(* str(float) and format(float, ".Ne"): decimal digit strings.  A decimal  *)
(* expansion is a sequence of digits ds (numbers 0..9) and a position pt:  *)
(* the value 0.ds * 10^pt.                                                 *)
(***************************************************************************)

RECURSIVE Repeat(_, _)
Repeat(c, n) == IF n <= 0 THEN <<>> ELSE <<c>> \o Repeat(c, n - 1)

DigitsToStr(ds) == [i \in 1..Len(ds) |-> DigitChars[ds[i] + 1]]

RECURSIVE IntToDigits(_)
IntToDigits(n) == IF n < 10 THEN <<n>> ELSE IntToDigits(n \div 10) \o <<n % 10>>

RECURSIVE StripTrailingZeros(_)
StripTrailingZeros(ds) ==
    IF ds # <<>> /\ ds[Len(ds)] = 0
    THEN StripTrailingZeros(SubSeq(ds, 1, Len(ds) - 1)) ELSE ds

\* decimal digits of a natural number, four at a time, high digit first
\* (with up to three leading zeros)
RECURSIVE BigToDec(_)
BigToDec(a) ==
    IF a = <<>> THEN <<>>
    ELSE LET dm == BigDivSmall(a, 10000)
         IN  BigToDec(dm.q) \o <<dm.r \div 1000, (dm.r \div 100) % 10,
                                 (dm.r \div 10) % 10, dm.r % 10>>

Pos(n) == IF n > 0 THEN n ELSE 0
Neg(n) == IF n < 0 THEN -n ELSE 0

\* a * 10^n for n >= 0
BigMulPow10(a, n) == BigShl(BigMul(a, BigPow5(n)), n)

\* compare a * 2^i * 10^j with b * 2^k * 10^l (any integers i, j, k, l)
CmpScaled(a, i, j, b, k, l) ==
    BigCmp(BigMulPow10(BigShl(a, Pos(i) + Neg(k)), Pos(j) + Neg(l)),
           BigMulPow10(BigShl(b, Pos(k) + Neg(i)), Pos(l) + Neg(j)))

\* the position pt of the decimal point of a finite non-zero value:
\* 10^(pt-1) <= m * 2^e < 10^pt, estimated from the bit length, then settled
DecimalPoint(x) ==
    LET est == ((BigBitLen(x.m) + x.e - 1) * 30103) \div 100000 + 1
    IN  CHOOSE p \in (est - 1)..(est + 1) :
            /\ CmpScaled(x.m, x.e, 0, <<1>>, 0, p - 1) >= 0
            /\ CmpScaled(x.m, x.e, 0, <<1>>, 0, p) < 0

\* the first n digits of the decimal expansion of a finite non-zero value, and
\* whether non-zero digits follow them (more): floor(m * 2^e / 10^(pt-n))
LeadingDigits(x, n) ==
    LET Taken(dec, more, pt) ==
            [ds |-> SubSeq(dec, Len(dec) - n + 1, Len(dec)), more |-> more, pt |-> pt]
        Divided(res, pt) == Taken(BigToDec(BigNorm(res.q)), res.sticky, pt)
        Scaled(pt, k) ==
            Divided(DivLimbs(BigMulPow10(BigShl(x.m, Pos(x.e)), Neg(pt - n)),
                             Zeros(k) \o BigMulPow10(BigShl(<<1>>, Neg(x.e)), Pos(pt - n)),
                             k), pt)
    IN  Scaled(DecimalPoint(x), n \div 4 + 1)

RECURSIVE IncDigits(_)
IncDigits(ds) ==
    IF ds[Len(ds)] = 9 THEN IncDigits(SubSeq(ds, 1, Len(ds) - 1)) \o <<0>>
    ELSE [ds EXCEPT ![Len(ds)] = @ + 1]

\* the n-digit decimal just above the first n digits of ds
CeilDigits(ds, pt, n) ==
    LET head == SubSeq(ds, 1, n)
    IN  IF \A i \in 1..n : head[i] = 9 THEN [ds |-> <<1>> \o Repeat(0, n - 1), pt |-> pt + 1]
        ELSE [ds |-> IncDigits(head), pt |-> pt]

FloorDigits(ds, pt, n) == [ds |-> SubSeq(ds, 1, n), pt |-> pt]

\* are the digits after the first n of the expansion ld all zero?
ExactAt(ld, n) == ~ld.more /\ \A i \in (n + 1)..Len(ld.ds) : ld.ds[i] = 0

\* does the expansion ld (of at least n + 1 digits) round up at n digits
\* (to nearest, ties to even)?
RoundsUp(ld, n) ==
    \/ ld.ds[n + 1] > 5
    \/ ld.ds[n + 1] = 5 /\ ~ExactAt(ld, n + 1)
    \/ ld.ds[n + 1] = 5 /\ ExactAt(ld, n + 1) /\ ld.ds[n] % 2 = 1

\* ld correctly rounded to n significant digits
RoundDigits(ld, n) ==
    IF RoundsUp(ld, n) THEN CeilDigits(ld.ds, ld.pt, n) ELSE FloorDigits(ld.ds, ld.pt, n)

\* does the n-digit decimal c convert back to the double x?  It does when it
\* lies between the midpoints to the neighbouring doubles (the midpoints
\* included when the significand of x is even).  In units of a quarter ulp
\* 2^(u-2), x is the integer w, the upper midpoint w + 2 and the lower one
\* w - 2, or w - 1 when x is a power of two (the doubles below are closer).
RoundTrips(x, c, n) ==
    LET u == Max(x.e + BigBitLen(x.m) - MANT_BITS, MIN_EXP)
        w == BigShl(x.m, x.e - u + 2)
        cb == BigNorm(DecToBig(c.ds, n))
        lo == BigSub(w, IF x.m = <<1>> /\ u > MIN_EXP THEN <<1>> ELSE <<2>>)
        hi == BigAdd(w, <<2>>)
        Inside(cl, ch, even) ==
            (cl > 0 \/ (cl = 0 /\ even)) /\ (ch < 0 \/ (ch = 0 /\ even))
    IN  Inside(CmpScaled(cb, 0, c.pt - n, lo, u - 2, 0),
               CmpScaled(cb, 0, c.pt - n, hi, u - 2, 0), x.e > u)

MAX_REPR_DIGITS == 17

\* is there an n-digit decimal that converts back to x?  If one exists, the
\* n-digit decimal just below or just above x is one.
HasDecimal(x, ld, n) ==
    \/ n = MAX_REPR_DIGITS
    \/ ExactAt(ld, n)
    \/ \E c \in {FloorDigits(ld.ds, ld.pt, n), CeilDigits(ld.ds, ld.pt, n)} :
           RoundTrips(x, c, n)

\* the least length, from n up, of a decimal that converts back to x
RECURSIVE ShortestLength(_, _, _)
ShortestLength(x, ld, n) ==
    IF HasDecimal(x, ld, n) THEN n ELSE ShortestLength(x, ld, n + 1)

\* the decimal of n digits that converts back to x, the nearest to x if it does
NearestOfLength(x, ld, n) ==
    LET Picked(near, far) ==
            IF ExactAt(ld, n) \/ RoundTrips(x, near, n) THEN near ELSE far
    IN  Picked(RoundDigits(ld, n),
               IF RoundsUp(ld, n) THEN FloorDigits(ld.ds, ld.pt, n)
               ELSE CeilDigits(ld.ds, ld.pt, n))

\* the shortest decimal that converts back to x, the nearest to x of that length
Shortest(x) ==
    LET Stripped(best) == [ds |-> StripTrailingZeros(best.ds), pt |-> best.pt]
        From(ld) == Stripped(NearestOfLength(x, ld, ShortestLength(x, ld, 1)))
    IN  From(LeadingDigits(x, MAX_REPR_DIGITS + 1))

\* "e+XX": the exponent with a sign and at least two digits
ExpStr(ex) ==
    LET mag == IF ex < 0 THEN -ex ELSE ex
    IN  <<"e", IF ex < 0 THEN "-" ELSE "+">>
        \o (IF mag < 10 THEN <<"0">> ELSE <<>>) \o DigitsToStr(IntToDigits(mag))

SignStr(x) == IF x.neg THEN <<"-">> ELSE <<>>

\* str(value): repr of a float
FloatStr(x) ==
    LET Layout(ds, pt, n) ==
            IF pt <= -4 \/ pt > 16
            THEN <<ds[1]>> \o (IF n > 1 THEN <<".">> \o Tail(ds) ELSE <<>>) \o ExpStr(pt - 1)
            ELSE IF pt <= 0 THEN <<"0", ".">> \o Repeat("0", -pt) \o ds
            ELSE IF pt >= n THEN ds \o Repeat("0", pt - n) \o <<".", "0">>
            ELSE SubSeq(ds, 1, pt) \o <<".">> \o SubSeq(ds, pt + 1, n)
        Written(d) == Layout(DigitsToStr(d.ds), d.pt, Len(d.ds))
    IN  IF x.cls = "nan" THEN <<"n", "a", "n">>
        ELSE SignStr(x) \o (IF x.cls = "inf" THEN <<"i", "n", "f">>
                            ELSE IF IsZero(x) THEN <<"0", ".", "0">>
                            ELSE Written(Shortest(x)))

\* f"{value:.{prec}e}" for prec >= 0
FormatE(x, prec) ==
    LET Layout(ds, pt) ==
            <<ds[1]>> \o (IF prec > 0 THEN <<".">> \o Tail(ds) ELSE <<>>) \o ExpStr(pt - 1)
        Written(d) == Layout(DigitsToStr(d.ds), d.pt)
    IN  IF x.cls = "nan" THEN <<"n", "a", "n">>
        ELSE SignStr(x) \o
             (IF x.cls = "inf" THEN <<"i", "n", "f">>
              ELSE Written(IF IsZero(x) THEN [ds |-> Repeat(0, prec + 1), pt |-> 1]
                           ELSE RoundDigits(LeadingDigits(x, prec + 2), prec + 1)))

(***************************************************************************)
(* The calculator (class Calculator).                                      *)
(***************************************************************************)
DISPLAY_SIZE == 9

VARIABLES
    display_size,                   \* number of digits (Calculator.display_size, LEDDisplay.display_size)
    display_str,                    \* what is shown
    num_str0,                       \* first operand
    num_str1,                       \* second operand
    operation_char,                 \* pending operator, or None
    last_key_was_operation,
    no_new_number_since_last_calc,
    ret,                            \* the string parse() returned last
    raised,                         \* the last parse() raised to its caller
    key,                            \* the character given to parse() last
    nkeys,                          \* number of calls of parse()
    typed                           \* the characters of a scripted key sequence handled so far

calc == <<display_str, num_str0, num_str1, operation_char,
          last_key_was_operation, no_new_number_since_last_calc>>
vars == <<display_size, display_str, num_str0, num_str1, operation_char,
          last_key_was_operation, no_new_number_since_last_calc,
          ret, raised, key, nkeys, typed>>

VARIABLES
    strip,                          \* LEDDisplay: the pixels, one (r, g, b) each
    red, green, blue,               \* LEDDisplay: the colour of a lit pixel
    brightness,                     \* LEDDisplay: the float that scales it
    input_str,                      \* the string given to print_display() last
    method,                         \* the method of the display a test called last
    display_exc,                    \* the exception the last call of the display raised, or "none"
    ncalls,                         \* number of calls of the display's methods by a test
    nprints,                        \* number of calls of print_display() by process_key()
    running,                        \* CalculatorApp.run() is in its loop
    pc,                             \* where the program is: in print_test(), in the
                                    \* constructor of the application or in a pass of
                                    \* its loop; "" when no call is under way
    pin,                            \* the level read from the button's pin (0 is pressed)
    now,                            \* time.ticks_ms()
    debounce_ms,                    \* DebouncedButton
    last_state,
    current_state,
    last_change_time,
    pressed,
    released,
    char                            \* the character of the button, as in BUTTON_PINS

\* the display, the button and its surroundings, which the calculator
\* never touches
hardware == <<strip, red, green, blue, brightness, input_str, method, display_exc,
              ncalls, nprints, running, pc, pin, now, debounce_ms, last_state,
              current_state, last_change_time, pressed, released, char>>

None == "None"
ZERO == <<"0">>
ERROR == <<"E", "r", "r", "o", "r">>

OperatorKeys == {"+", "-", "*", "/"}

\* str.rstrip(c)
RECURSIVE RStrip(_, _)
RStrip(s, c) ==
    IF s # <<>> /\ s[Len(s)] = c THEN RStrip(SubSeq(s, 1, Len(s) - 1), c) ELSE s

\* str.replace(c, '')
Remove(s, c) == SelectSeq(s, LAMBDA x : x # c)

Contains(s, c) == \E i \in 1..Len(s) : s[i] = c

\* _format_number(value): the exception it raises ("none" when it returns)
\* and the text it returns.  The value is a float, or a str, written
\* [cls |-> "str", text |-> its characters], that float() converts first:
\* "0" is returned for a str that float() rejects.
_format_number(value, size) ==
    LET Returned(result) == [exc |-> "none", text |-> IF result # <<>> THEN result ELSE ZERO]
        Truncated(result) ==
            Returned(IF Len(result) > size + 1 THEN SubSeq(result, 1, size + 1) ELSE result)
        Limited(number, result) ==
            IF Len(result) > size + 1
            \* f"{value:.{prec}e}" raises ValueError for a negative precision
            THEN (IF size - 5 < 0 THEN [exc |-> "ValueError", text |-> <<>>]
                  ELSE Truncated(FormatE(number, size - 5)))
            ELSE Returned(result)
        Stripped(number, result) ==
            Limited(number,
                    IF Contains(result, ".") THEN RStrip(RStrip(result, "0"), ".")
                    ELSE result)
        Formatted(number) ==
            IF number = ValueError THEN Returned(ZERO)
            ELSE Stripped(number, FloatStr(number))
    IN  Formatted(IF value.cls = "str" THEN ParseFloat(value.text) ELSE value)

\* the dispatcher table of _handle_equals; [cls |-> "None"] is the None
\* that stands for a division by zero
operations(op, a, b) ==
    CASE op = "+" -> FAdd(a, b)
      [] op = "-" -> FSub(a, b)
      [] op = "*" -> FMul(a, b)
      [] op = "/" -> IF ~IsZero(b) THEN FDiv(a, b) ELSE [cls |-> "None"]

\* a handler that lets ValueError through
EqualsCatchesZeroDivisionOnly == {"ZeroDivisionError"}

\* the exceptions the except clause of _handle_equals catches
EqualsCatches == {"ValueError", "ZeroDivisionError"}

\* a division by zero that also forgets the first operand
DivisionByZeroForgets(s0) == [exc |-> "none", display |-> ERROR, num0 |-> ZERO]

\* "if result is None": the display shows Error, the first operand stays
DivisionByZero(s0) == [exc |-> "none", display |-> ERROR, num0 |-> s0]

\* a result that reaches the display only
StoreResultDisplayOnly(text) == [exc |-> "none", display |-> text, num0 |-> ZERO]

\* "else": the formatted result goes to the first operand and to the display
StoreResult(text) == [exc |-> "none", display |-> text, num0 |-> text]

\* a try block that ends early: with an exception, or with nothing to do
EqualsLeft(s0, exc) == [exc |-> exc, display |-> ZERO, num0 |-> s0]

\* the try block of _handle_equals from "if result is None" on
EqualsResult(s0, result, size) ==
    LET Formatted(fmt) ==
            IF fmt.exc # "none" THEN EqualsLeft(s0, fmt.exc) ELSE StoreResult(fmt.text)
    IN  IF result.cls = "None" THEN DivisionByZero(s0)
        ELSE Formatted(_format_number(result, size))

\* the try block of _handle_equals from the operands converted by float() on
EqualsCompute(s0, num0, num1, op, size) ==
    IF num0 = ValueError \/ num1 = ValueError THEN EqualsLeft(s0, "ValueError")
    ELSE IF op \notin OperatorKeys THEN EqualsLeft(s0, "none")
    ELSE EqualsResult(s0, operations(op, num0, num1), size)

\* the try block of _handle_equals: the exception it ends with ("none" when
\* it completes), and the display and first operand it leaves
EqualsTry(s0, s1, op, size) ==
    EqualsCompute(s0, ParseFloat(s0), ParseFloat(s1), op, size)

\* a second operand taken from the display at every "="
SecondOperandAlways(no_new, display, num1) == display

\* a second operand that is never taken from the display
SecondOperandStale(no_new, display, num1) == num1

\* "if not self.no_new_number_since_last_calc: self.num_str1 = self.display_str"
SecondOperand(no_new, display, num1) == IF ~no_new THEN display ELSE num1

\* an operator key that keeps the operator already pending
_handle_operator_keeps_first(in_byte) ==
    /\ operation_char' = IF last_key_was_operation THEN operation_char ELSE in_byte
    /\ last_key_was_operation' = TRUE
    /\ num_str0' = display_str
    /\ UNCHANGED <<display_str, num_str1, no_new_number_since_last_calc, raised>>

\* an operator key that keeps the first operand of a pending operation
_handle_operator_keeps_operand(in_byte) ==
    /\ operation_char' = in_byte
    /\ last_key_was_operation' = TRUE
    /\ num_str0' = IF operation_char # None THEN num_str0 ELSE display_str
    /\ UNCHANGED <<display_str, num_str1, no_new_number_since_last_calc, raised>>

_handle_operator(in_byte) ==
    /\ operation_char' = in_byte
    /\ last_key_was_operation' = TRUE
    /\ num_str0' = display_str
    /\ UNCHANGED <<display_str, num_str1, no_new_number_since_last_calc, raised>>

\* an "=" that marks a result as pending only when it shows a number
_handle_equals_error_unflagged ==
    LET Ended(s1, try) ==
            /\ num_str1' = s1
            /\ no_new_number_since_last_calc' =
                   (try.exc \notin EqualsCatches /\ try.display # ERROR)
            /\ num_str0' = try.num0
            /\ display_str' = IF try.exc \in EqualsCatches THEN ERROR ELSE try.display
            /\ raised' = (try.exc \notin EqualsCatches \cup {"none"})
            /\ UNCHANGED <<operation_char, last_key_was_operation>>
        s1 == SecondOperand(no_new_number_since_last_calc, display_str, num_str1)
    IN  Ended(s1, EqualsTry(num_str0, s1, operation_char, display_size))

_handle_equals ==
    LET Ended(s1, try) ==
            /\ num_str1' = s1
            /\ no_new_number_since_last_calc' = TRUE
            /\ num_str0' = try.num0
            /\ display_str' = IF try.exc \in EqualsCatches THEN ERROR ELSE try.display
            /\ raised' = (try.exc \notin EqualsCatches \cup {"none"})
            /\ UNCHANGED <<operation_char, last_key_was_operation>>
        s1 == SecondOperand(no_new_number_since_last_calc, display_str, num_str1)
    IN  Ended(s1, EqualsTry(num_str0, s1, operation_char, display_size))

\* a backspace that stops at the last character
_handle_backspace_keeps_last ==
    /\ display_str' = IF Len(display_str) > 1
                      THEN SubSeq(display_str, 1, Len(display_str) - 1) ELSE display_str
    /\ UNCHANGED <<num_str0, num_str1, operation_char, last_key_was_operation,
                   no_new_number_since_last_calc, raised>>

\* a backspace that makes the edited display a newly entered number
_handle_backspace_marks_entry ==
    /\ display_str' = IF Len(display_str) > 1
                      THEN SubSeq(display_str, 1, Len(display_str) - 1) ELSE ZERO
    /\ no_new_number_since_last_calc' = FALSE
    /\ UNCHANGED <<num_str0, num_str1, operation_char, last_key_was_operation,
                   raised>>

_handle_backspace ==
    /\ display_str' = IF Len(display_str) > 1
                      THEN SubSeq(display_str, 1, Len(display_str) - 1) ELSE ZERO
    /\ UNCHANGED <<num_str0, num_str1, operation_char, last_key_was_operation,
                   no_new_number_since_last_calc, raised>>

\* a clear-entry that also drops the pending operator
_handle_clear_entry_drops_operator ==
    /\ display_str' = ZERO
    /\ operation_char' = None
    /\ UNCHANGED <<num_str0, num_str1, last_key_was_operation,
                   no_new_number_since_last_calc, raised>>

_handle_clear_entry ==
    /\ display_str' = ZERO
    /\ UNCHANGED <<num_str0, num_str1, operation_char, last_key_was_operation,
                   no_new_number_since_last_calc, raised>>

\* a clear-all that leaves the pending operator and the second operand
_handle_clear_all_keeps_operator ==
    /\ display_str' = ZERO
    /\ num_str0' = ZERO
    /\ last_key_was_operation' = FALSE
    /\ no_new_number_since_last_calc' = FALSE
    /\ UNCHANGED <<num_str1, operation_char, raised>>

_handle_clear_all ==
    /\ display_str' = ZERO
    /\ num_str0' = ZERO
    /\ num_str1' = ZERO
    /\ last_key_was_operation' = FALSE
    /\ operation_char' = None
    /\ no_new_number_since_last_calc' = FALSE
    /\ UNCHANGED raised

\* a sign written after the number
NegatedSuffix(display) ==
    IF display = ZERO THEN <<"-">> ELSE display \o <<"-">>

\* a sign key that puts the sign in front of a display "0" as well
NegatedZeroKept(display) ==
    IF display # <<>> /\ display[1] = "-" THEN Tail(display)
    ELSE <<"-">> \o display

Negated(display) ==
    IF display = ZERO THEN <<"-">>
    ELSE IF display # <<>> /\ display[1] = "-" THEN Tail(display)
    ELSE <<"-">> \o display

\* a sign key that ends the fresh-number state, as a digit does
_handle_negate_clears_flags ==
    /\ display_str' = Negated(display_str)
    /\ last_key_was_operation' = FALSE
    /\ no_new_number_since_last_calc' = FALSE
    /\ UNCHANGED <<num_str0, num_str1, operation_char, raised>>

_handle_negate ==
    /\ display_str' = Negated(display_str)
    /\ UNCHANGED <<num_str0, num_str1, operation_char, last_key_was_operation,
                   no_new_number_since_last_calc, raised>>

\* a decimal point appended without looking
WithPointAlways(display) == display \o <<".">>

\* "elif '.' not in self.display_str: self.display_str += '.'"
WithPoint(display) == IF ~Contains(display, ".") THEN display \o <<".">> ELSE display

\* a decimal point that starts the fraction over when the display has one
_handle_decimal_restarts ==
    /\ IF last_key_was_operation
       THEN /\ display_str' = <<"0", ".">>
            /\ last_key_was_operation' = FALSE
            /\ UNCHANGED no_new_number_since_last_calc
       ELSE IF no_new_number_since_last_calc
       THEN /\ display_str' = <<"0", ".">>
            /\ no_new_number_since_last_calc' = FALSE
            /\ UNCHANGED last_key_was_operation
       ELSE /\ display_str' = IF Contains(display_str, ".") THEN <<"0", ".">>
                              ELSE display_str \o <<".">>
            /\ UNCHANGED <<last_key_was_operation, no_new_number_since_last_calc>>
    /\ UNCHANGED <<num_str0, num_str1, operation_char, raised>>

_handle_decimal ==
    /\ IF last_key_was_operation
       THEN /\ display_str' = <<"0", ".">>
            /\ last_key_was_operation' = FALSE
            /\ UNCHANGED no_new_number_since_last_calc
       ELSE IF no_new_number_since_last_calc
       THEN /\ display_str' = <<"0", ".">>
            /\ no_new_number_since_last_calc' = FALSE
            /\ UNCHANGED last_key_was_operation
       ELSE /\ display_str' = WithPoint(display_str)
            /\ UNCHANGED <<last_key_was_operation, no_new_number_since_last_calc>>
    /\ UNCHANGED <<num_str0, num_str1, operation_char, raised>>

\* a digit handler that lets one digit too many in
_handle_digit_one_more(in_byte) ==
    LET cleared == IF last_key_was_operation \/ no_new_number_since_last_calc
                   THEN ZERO ELSE display_str
        current_len == Len(Remove(Remove(cleared, "."), "-"))
        characters == IF Len(in_byte) = 1 THEN <<in_byte>>
                      ELSE [i \in 1..Len(in_byte) |-> SubSeq(in_byte, i, i)]
    IN  /\ last_key_was_operation' = FALSE
        /\ no_new_number_since_last_calc' = FALSE
        /\ display_str' = IF current_len <= display_size
                          THEN (IF cleared = ZERO THEN characters
                                ELSE cleared \o characters)
                          ELSE cleared
        /\ UNCHANGED <<num_str0, num_str1, operation_char, raised>>

\* a digit handler that clears one of the two flags only, as the decimal
\* point does
_handle_digit_clears_one_flag(in_byte) ==
    LET cleared == IF last_key_was_operation \/ no_new_number_since_last_calc
                   THEN ZERO ELSE display_str
        current_len == Len(Remove(Remove(cleared, "."), "-"))
        characters == IF Len(in_byte) = 1 THEN <<in_byte>>
                      ELSE [i \in 1..Len(in_byte) |-> SubSeq(in_byte, i, i)]
    IN  /\ last_key_was_operation' = FALSE
        /\ no_new_number_since_last_calc' =
               (last_key_was_operation /\ no_new_number_since_last_calc)
        /\ display_str' = IF current_len < display_size
                          THEN (IF cleared = ZERO THEN characters
                                ELSE cleared \o characters)
                          ELSE cleared
        /\ UNCHANGED <<num_str0, num_str1, operation_char, raised>>

_handle_digit(in_byte) ==
    LET cleared == IF last_key_was_operation \/ no_new_number_since_last_calc
                   THEN ZERO ELSE display_str
        current_len == Len(Remove(Remove(cleared, "."), "-"))
        characters == IF Len(in_byte) = 1 THEN <<in_byte>>
                      ELSE [i \in 1..Len(in_byte) |-> SubSeq(in_byte, i, i)]
    IN  /\ last_key_was_operation' = FALSE
        /\ no_new_number_since_last_calc' = FALSE
        /\ display_str' = IF current_len < display_size
                          THEN (IF cleared = ZERO THEN characters
                                ELSE cleared \o characters)
                          ELSE cleared
        /\ UNCHANGED <<num_str0, num_str1, operation_char, raised>>

\* parse(in_byte): route the character to its handler and return the display
parse(in_byte) ==
    /\ CASE in_byte \in OperatorKeys -> _handle_operator(in_byte)
         [] in_byte = "=" -> _handle_equals
         [] in_byte = "b" -> _handle_backspace
         [] in_byte = "c" -> _handle_clear_entry
         [] in_byte = "C" -> _handle_clear_all
         [] in_byte = "n" -> _handle_negate
         [] in_byte = "." -> _handle_decimal
         [] OTHER -> IF isdigit(in_byte) THEN _handle_digit(in_byte)
                     ELSE UNCHANGED <<calc, raised>>
    /\ ret' = IF raised' THEN ret ELSE display_str'
    /\ key' = in_byte
    /\ nkeys' = nkeys + 1
    /\ UNCHANGED display_size

\* parse(in_byte) left by a KeyboardInterrupt raised inside it: the handler
\* has made the first of its assignments, in the order of its statements,
\* and nothing is returned
parse_interrupted(in_byte) ==
    LET c0 == [display_str |-> display_str, num_str0 |-> num_str0,
               num_str1 |-> num_str1, operation_char |-> operation_char,
               last_key_was_operation |-> last_key_was_operation,
               no_new_number_since_last_calc |-> no_new_number_since_last_calc]
        Operator ==
            LET c1 == [c0 EXCEPT !.operation_char = in_byte]
                c2 == [c1 EXCEPT !.last_key_was_operation = TRUE]
            IN  {c1, c2, [c2 EXCEPT !.num_str0 = display_str]}
        Equals(s1, try) ==
            LET c1 == [c0 EXCEPT !.num_str1 = s1]
                c2 == [c1 EXCEPT !.no_new_number_since_last_calc = TRUE]
                c3 == [c2 EXCEPT !.display_str = ZERO]
                c4 == [c3 EXCEPT !.num_str0 = try.num0]
            IN  {c1, c2, c3, c4,
                 [c4 EXCEPT !.display_str = IF try.exc \in EqualsCatches THEN ERROR
                                            ELSE try.display]}
        ClearAll ==
            LET c1 == [c0 EXCEPT !.display_str = ZERO]
                c2 == [c1 EXCEPT !.num_str0 = ZERO]
                c3 == [c2 EXCEPT !.num_str1 = ZERO]
                c4 == [c3 EXCEPT !.last_key_was_operation = FALSE]
                c5 == [c4 EXCEPT !.operation_char = None]
            IN  {c1, c2, c3, c4, c5,
                 [c5 EXCEPT !.no_new_number_since_last_calc = FALSE]}
        Decimal ==
            IF last_key_was_operation
            THEN LET c1 == [c0 EXCEPT !.display_str = <<"0", ".">>]
                 IN  {c1, [c1 EXCEPT !.last_key_was_operation = FALSE]}
            ELSE IF no_new_number_since_last_calc
            THEN LET c1 == [c0 EXCEPT !.display_str = <<"0", ".">>]
                 IN  {c1, [c1 EXCEPT !.no_new_number_since_last_calc = FALSE]}
            ELSE {[c0 EXCEPT !.display_str = WithPoint(display_str)]}
        Digit ==
            LET characters == IF Len(in_byte) = 1 THEN <<in_byte>>
                              ELSE [i \in 1..Len(in_byte) |-> SubSeq(in_byte, i, i)]
                c1 == IF last_key_was_operation
                      THEN [c0 EXCEPT !.display_str = ZERO] ELSE c0
                c2 == [c1 EXCEPT !.last_key_was_operation = FALSE]
                c3 == IF no_new_number_since_last_calc
                      THEN [c2 EXCEPT !.display_str = ZERO] ELSE c2
                c4 == [c3 EXCEPT !.no_new_number_since_last_calc = FALSE]
                current_len == Len(Remove(Remove(c4.display_str, "."), "-"))
            IN  {c1, c2, c3, c4,
                 [c4 EXCEPT !.display_str = IF current_len >= display_size THEN @
                                            ELSE IF @ = ZERO THEN characters
                                            ELSE @ \o characters]}
        Handler ==
            CASE in_byte \in OperatorKeys -> Operator
              [] in_byte = "=" ->
                     LET s1 == SecondOperand(no_new_number_since_last_calc,
                                             display_str, num_str1)
                     IN  Equals(s1, EqualsTry(num_str0, s1, operation_char,
                                              display_size))
              [] in_byte = "b" ->
                     {[c0 EXCEPT !.display_str =
                           IF Len(display_str) > 1
                           THEN SubSeq(display_str, 1, Len(display_str) - 1)
                           ELSE ZERO]}
              [] in_byte = "c" -> {[c0 EXCEPT !.display_str = ZERO]}
              [] in_byte = "C" -> ClearAll
              [] in_byte = "n" -> {[c0 EXCEPT !.display_str = Negated(display_str)]}
              [] in_byte = "." -> Decimal
              [] OTHER -> IF isdigit(in_byte) THEN Digit ELSE {}
    IN  /\ \E c \in {c0} \cup Handler :
              /\ display_str' = c.display_str
              /\ num_str0' = c.num_str0
              /\ num_str1' = c.num_str1
              /\ operation_char' = c.operation_char
              /\ last_key_was_operation' = c.last_key_was_operation
              /\ no_new_number_since_last_calc' = c.no_new_number_since_last_calc
        /\ key' = in_byte
        /\ nkeys' = nkeys + 1
        /\ UNCHANGED <<display_size, ret, raised>>

\* Calculator(display_size) followed by begin()
begin(size) ==
    /\ display_size = size
    /\ display_str = ZERO
    /\ num_str0 = ZERO
    /\ num_str1 = ZERO
    /\ last_key_was_operation = FALSE
    /\ operation_char = None
    /\ no_new_number_since_last_calc = FALSE
    /\ ret = ZERO
    /\ raised = FALSE
    /\ key = ""
    /\ nkeys = 0
    /\ typed = <<>>

(***************************************************************************)
(* The display (class LEDDisplay): display_size digits of LEDS_PER_DIGIT   *)
(* pixels each, seven segments of four pixels and a decimal point.         *)
(***************************************************************************)
LEDS_PER_DIGIT == 29

\* row d + 1 is the pattern of digit d; pixels TOP_LEFT(1-4), TOP(5-8),
\* TOP_RIGHT(9-12), BOTTOM_RIGHT(13-16), BOTTOM(17-20), BOTTOM_LEFT(21-24),
\* MIDDLE(25-28), DOT(29)
DIGIT_ARRAY == <<
    <<1,1,1,1, 1,1,1,1, 1,1,1,1, 1,1,1,1, 1,1,1,1, 1,1,1,1, 0,0,0,0, 0>>,
    <<0,0,0,0, 0,0,0,0, 1,1,1,1, 1,1,1,1, 0,0,0,0, 0,0,0,0, 0,0,0,0, 0>>,
    <<0,0,0,0, 1,1,1,1, 1,1,1,1, 0,0,0,0, 1,1,1,1, 1,1,1,1, 1,1,1,1, 0>>,
    <<0,0,0,0, 1,1,1,1, 1,1,1,1, 1,1,1,1, 1,1,1,1, 0,0,0,0, 1,1,1,1, 0>>,
    <<1,1,1,1, 0,0,0,0, 1,1,1,1, 1,1,1,1, 0,0,0,0, 0,0,0,0, 1,1,1,1, 0>>,
    <<1,1,1,1, 1,1,1,1, 0,0,0,0, 1,1,1,1, 1,1,1,1, 0,0,0,0, 1,1,1,1, 0>>,
    <<1,1,1,1, 1,1,1,1, 0,0,0,0, 1,1,1,1, 1,1,1,1, 1,1,1,1, 1,1,1,1, 0>>,
    <<0,0,0,0, 1,1,1,1, 1,1,1,1, 1,1,1,1, 0,0,0,0, 0,0,0,0, 0,0,0,0, 0>>,
    <<1,1,1,1, 1,1,1,1, 1,1,1,1, 1,1,1,1, 1,1,1,1, 1,1,1,1, 1,1,1,1, 0>>,
    <<1,1,1,1, 1,1,1,1, 1,1,1,1, 1,1,1,1, 0,0,0,0, 0,0,0,0, 1,1,1,1, 0>>
>>

\* (int(red * brightness), int(green * brightness), int(blue * brightness)):
\* the float product, truncated towards zero
_apply_brightness(r, g, b) ==
    LET RECURSIVE ToInt(_)
        ToInt(a) == IF a = <<>> THEN 0 ELSE a[1] + BASE * ToInt(Tail(a))
        Truncated(p) ==
            (IF p.neg THEN -1 ELSE 1)
            * ToInt(IF p.e >= 0 THEN BigShl(p.m, p.e) ELSE BigShr(p.m, -p.e))
        Scaled(c) ==
            Truncated(FMul(MakeFinite(c < 0, BigFromInt(IF c < 0 THEN -c ELSE c), 0),
                           brightness))
    IN  <<Scaled(r), Scaled(g), Scaled(b)>>

\* set_one_digit counting the positions from the other end of the strip
set_one_digit_from_left(s, digit, pos, dp) ==
    LET lit == _apply_brightness(red, green, blue)
        Pixel(led_pos) ==
            IF led_pos = LEDS_PER_DIGIT - 1
            THEN (IF dp THEN lit ELSE <<0, 0, 0>>)
            ELSE IF digit >= Len(DIGIT_ARRAY) THEN <<0, 0, 0>>
            ELSE IF DIGIT_ARRAY[digit + 1][led_pos + 1] # 0 THEN lit
            ELSE <<0, 0, 0>>
    IN  [i \in 1..Len(s) |->
            IF (i - 1) \div LEDS_PER_DIGIT = display_size - 1 - pos
            THEN Pixel((i - 1) % LEDS_PER_DIGIT) ELSE s[i]]

\* set_one_digit that never lights the decimal point
set_one_digit_without_dp(s, digit, pos, dp) ==
    LET lit == _apply_brightness(red, green, blue)
        Pixel(led_pos) ==
            IF led_pos = LEDS_PER_DIGIT - 1 THEN <<0, 0, 0>>
            ELSE IF digit >= Len(DIGIT_ARRAY) THEN <<0, 0, 0>>
            ELSE IF DIGIT_ARRAY[digit + 1][led_pos + 1] # 0 THEN lit
            ELSE <<0, 0, 0>>
    IN  [i \in 1..Len(s) |->
            IF (i - 1) \div LEDS_PER_DIGIT = pos
            THEN Pixel((i - 1) % LEDS_PER_DIGIT) ELSE s[i]]

\* the strip s after set_one_digit(digit, pos, dp): the pixels of position
\* pos show the pattern of the digit, or nothing when the digit is not in
\* DIGIT_ARRAY, and the last of them is the decimal point
set_one_digit(s, digit, pos, dp) ==
    LET lit == _apply_brightness(red, green, blue)
        Pixel(led_pos) ==
            IF led_pos = LEDS_PER_DIGIT - 1
            THEN (IF dp THEN lit ELSE <<0, 0, 0>>)
            ELSE IF digit >= Len(DIGIT_ARRAY) THEN <<0, 0, 0>>
            ELSE IF DIGIT_ARRAY[digit + 1][led_pos + 1] # 0 THEN lit
            ELSE <<0, 0, 0>>
    IN  [i \in 1..Len(s) |->
            IF (i - 1) \div LEDS_PER_DIGIT = pos
            THEN Pixel((i - 1) % LEDS_PER_DIGIT) ELSE s[i]]

\* the strip s when set_one_digit(digit, pos, dp) is interrupted after n
\* of its writes: one for each pixel of the position in the loop, then the
\* one of the decimal point
set_one_digit_interrupted(s, digit, pos, dp, n) ==
    LET lit == _apply_brightness(red, green, blue)
        Pixel(led_pos) ==
            IF led_pos = LEDS_PER_DIGIT - 1 /\ n > LEDS_PER_DIGIT
            THEN (IF dp THEN lit ELSE <<0, 0, 0>>)
            ELSE IF digit >= Len(DIGIT_ARRAY) THEN <<0, 0, 0>>
            ELSE IF DIGIT_ARRAY[digit + 1][led_pos + 1] # 0 THEN lit
            ELSE <<0, 0, 0>>
    IN  [i \in 1..Len(s) |->
            IF (i - 1) \div LEDS_PER_DIGIT = pos /\ (i - 1) % LEDS_PER_DIGIT < n
            THEN Pixel((i - 1) % LEDS_PER_DIGIT) ELSE s[i]]

\* the strip s after clear()
clear(s) == [i \in 1..Len(s) |-> <<0, 0, 0>>]

\* the strip s when clear() is interrupted after n pixels
clear_interrupted(s, n) ==
    [i \in 1..Len(s) |-> IF i <= n THEN <<0, 0, 0>> ELSE s[i]]

\* print_display(input_str) on the strip s: the exception it raises ("none"
\* when it returns) and the strip it leaves.  The strip is cleared, then
\* filled from the rightmost position to the left while str_pos walks the
\* string backwards; int() raises ValueError on a digit that is not a
\* decimal one, and the positions set until then stay.
print_display(s, input) ==
    LET RECURSIVE Positions(_, _, _)
        Positions(t, display_pos, str_pos) ==
            IF display_pos < 0 THEN [exc |-> "none", strip |-> t]
            ELSE LET shown == /\ str_pos >= 0
                              /\ (isdigit(input[str_pos + 1]) \/ input[str_pos + 1] = ".")
                     dp == shown /\ input[str_pos + 1] = "."
                     sp == IF dp THEN str_pos - 1 ELSE str_pos
                     digit == shown /\ sp >= 0 /\ isdigit(input[sp + 1])
                 IN  IF digit /\ ~IsDigit(input[sp + 1])
                     THEN [exc |-> "ValueError", strip |-> t]
                     ELSE Positions(
                              set_one_digit(t, IF digit THEN DigitVal(input[sp + 1]) ELSE 255,
                                            display_pos, digit /\ dp),
                              display_pos - 1, IF digit THEN sp - 1 ELSE sp)
    IN  Positions(clear(s), display_size - 1, Len(input) - 1)

\* the strip s when print_display(input_str) is interrupted after n writes
\* to the strip: those of clear(), then those of set_one_digit for one
\* position after the other
print_display_interrupted(s, input, n) ==
    LET RECURSIVE Positions(_, _, _, _)
        Positions(t, display_pos, str_pos, left) ==
            IF display_pos < 0 \/ left <= 0 THEN t
            ELSE LET shown == /\ str_pos >= 0
                              /\ (isdigit(input[str_pos + 1]) \/ input[str_pos + 1] = ".")
                     dp == shown /\ input[str_pos + 1] = "."
                     sp == IF dp THEN str_pos - 1 ELSE str_pos
                     digit == shown /\ sp >= 0 /\ isdigit(input[sp + 1])
                 IN  IF digit /\ ~IsDigit(input[sp + 1]) THEN t
                     ELSE Positions(
                              set_one_digit_interrupted(
                                  t, IF digit THEN DigitVal(input[sp + 1]) ELSE 255,
                                  display_pos, digit /\ dp, left),
                              display_pos - 1, IF digit THEN sp - 1 ELSE sp,
                              left - (LEDS_PER_DIGIT + 1))
    IN  Positions(clear_interrupted(s, n), display_size - 1, Len(input) - 1,
                  n - Len(s))

\* LEDDisplay(size, led_pin, LEDS_PER_DIGIT): a dark strip, the colour and
\* the brightness of the constructor
LEDDisplay(size) ==
    /\ display_size = size
    /\ strip = [i \in 1..(size * LEDS_PER_DIGIT) |-> <<0, 0, 0>>]
    /\ red = 127
    /\ green = 127
    /\ blue = 127
    /\ brightness = ParseFloat(<<"1", ".", "0">>)
    /\ input_str = <<>>
    /\ method = ""
    /\ display_exc = "none"
    /\ ncalls = 0
    /\ nprints = 0

\* begin(brightness): the brightness is kept and the strip cleared
LEDDisplay_begin(b) ==
    /\ brightness' = b
    /\ strip' = clear(strip)
    /\ UNCHANGED <<red, green, blue>>

\* set_color(red, green, blue)
set_color(r, g, b) ==
    /\ red' = r
    /\ green' = g
    /\ blue' = b
    /\ UNCHANGED <<strip, brightness>>

\* the colours set_color(r, g, b) can be interrupted with: red, green and
\* blue are assigned in this order
set_color_interrupted(r, g, b) ==
    {<<red, green, blue>>, <<r, green, blue>>, <<r, g, blue>>, <<r, g, b>>}

\* print_test(), called where pc is `called` and returning to `return_to`:
\* a row of 8 in red, in green and in blue, then the digits 0, 1, ... in white
\* with a decimal point on the even ones, each shown during time.sleep(1),
\* then the strip is cleared.  Each step runs up to the next print_display
\* or the end of the next sleep.
print_test(called, return_to) ==
    LET test_pattern == [i \in 1..display_size |-> "8"]
        RECURSIVE Digits(_, _)
        Digits(s, number) ==
            IF number = display_size THEN s
            ELSE Digits(set_one_digit(s, number, number, number % 2 = 0), number + 1)
        Colour(r, g, b) == red' = r /\ green' = g /\ blue' = b
        Shown(result) == strip' = result.strip
    IN  /\ \/ /\ pc = called
              /\ strip' = clear(strip)
              /\ Colour(255, 0, 0)
              /\ pc' = "test_red"
              /\ UNCHANGED <<input_str, now>>
           \/ /\ pc \in {"test_red", "test_green", "test_blue"}
              /\ Shown(print_display(strip, test_pattern))
              /\ input_str' = test_pattern
              /\ pc' = CASE pc = "test_red" -> "sleep_red"
                          [] pc = "test_green" -> "sleep_green"
                          [] pc = "test_blue" -> "sleep_blue"
              /\ UNCHANGED <<red, green, blue, now>>
           \/ /\ pc = "sleep_red"
              /\ now' = now + 1000
              /\ Colour(0, 255, 0)
              /\ pc' = "test_green"
              /\ UNCHANGED <<strip, input_str>>
           \/ /\ pc = "sleep_green"
              /\ now' = now + 1000
              /\ Colour(0, 0, 255)
              /\ pc' = "test_blue"
              /\ UNCHANGED <<strip, input_str>>
           \/ /\ pc = "sleep_blue"
              /\ now' = now + 1000
              /\ strip' = clear(strip)
              /\ Colour(255, 255, 255)
              /\ pc' = "test_digits"
              /\ UNCHANGED input_str
           \/ /\ pc = "test_digits"
              /\ strip' = Digits(strip, 0)
              /\ pc' = "sleep_digits"
              /\ UNCHANGED <<red, green, blue, input_str, now>>
           \/ /\ pc = "sleep_digits"
              /\ now' = now + 1000
              /\ strip' = clear(strip)
              /\ pc' = return_to
              /\ UNCHANGED <<red, green, blue, input_str>>
        /\ UNCHANGED brightness

\* print_test() left by a KeyboardInterrupt raised inside one of its steps:
\* the writes to the strip and the assignments of the step stop anywhere
print_test_interrupted(called) ==
    LET test_pattern == [i \in 1..display_size |-> "8"]
        RECURSIVE Digits(_, _, _)
        Digits(s, number, left) ==
            IF number = display_size \/ left <= 0 THEN s
            ELSE Digits(set_one_digit_interrupted(s, number, number,
                                                  number % 2 = 0, left),
                        number + 1, left - (LEDS_PER_DIGIT + 1))
        Colour(c) == red' = c[1] /\ green' = c[2] /\ blue' = c[3]
        \* clear() and then set_color(r, g, b)
        ClearThenColour(r, g, b) ==
            \/ /\ \E n \in 0..Len(strip) : strip' = clear_interrupted(strip, n)
               /\ UNCHANGED <<red, green, blue>>
            \/ /\ strip' = clear(strip)
               /\ \E c \in set_color_interrupted(r, g, b) : Colour(c)
    IN  /\ \/ /\ pc = called
              /\ ClearThenColour(255, 0, 0)
              /\ UNCHANGED <<input_str, now>>
           \/ /\ pc \in {"test_red", "test_green", "test_blue"}
              /\ \E n \in 0..(Len(strip) + display_size * (LEDS_PER_DIGIT + 1)) :
                    strip' = print_display_interrupted(strip, test_pattern, n)
              /\ input_str' = test_pattern
              /\ UNCHANGED <<red, green, blue, now>>
           \/ /\ pc \in {"sleep_red", "sleep_green"}
              /\ now' = now + 1000
              /\ \E c \in IF pc = "sleep_red" THEN set_color_interrupted(0, 255, 0)
                           ELSE set_color_interrupted(0, 0, 255) : Colour(c)
              /\ UNCHANGED <<strip, input_str>>
           \/ /\ pc = "sleep_blue"
              /\ now' = now + 1000
              /\ ClearThenColour(255, 255, 255)
              /\ UNCHANGED input_str
           \/ /\ pc = "test_digits"
              /\ \E n \in 0..(display_size * (LEDS_PER_DIGIT + 1)) :
                    strip' = Digits(strip, 0, n)
              /\ UNCHANGED <<red, green, blue, input_str, now>>
           \/ /\ pc = "sleep_digits"
              /\ now' = now + 1000
              /\ \E n \in 0..Len(strip) : strip' = clear_interrupted(strip, n)
              /\ UNCHANGED <<red, green, blue, input_str>>
        /\ UNCHANGED brightness

\* a calculator that runs without a display (serial_calculator.py)
NoDisplay ==
    /\ strip = <<>>
    /\ red = 0
    /\ green = 0
    /\ blue = 0
    /\ brightness = FZero(FALSE)
    /\ input_str = <<>>
    /\ method = ""
    /\ display_exc = "none"
    /\ ncalls = 0
    /\ nprints = 0

(***************************************************************************)
(* A button (class DebouncedButton).  pin is the level its pin reads, 0    *)
(* when the button is held down; now is the millisecond clock, and         *)
(* time.ticks_diff(a, b) is a - b.                                         *)
(***************************************************************************)
DEBOUNCE_MS == 50

\* (pin number, character) of every button of the keypad
BUTTON_PINS == <<
    <<21, "=">>, <<20, "+">>, <<19, "c">>, <<18, "7">>, <<17, "4">>,
    <<16, "1">>, <<15, "n">>, <<14, "0">>, <<2, "2">>, <<3, "5">>,
    <<4, "8">>, <<5, "(">>, <<6, "%">>, <<7, "9">>, <<8, "6">>,
    <<9, "3">>, <<10, ".">>, <<11, "/">>, <<12, "*">>, <<13, "-">>
>>

\* DebouncedButton(pin_num, ms)
DebouncedButton(ms) ==
    /\ debounce_ms = ms
    /\ last_state = pin
    /\ current_state = pin
    /\ last_change_time = now
    /\ pressed = FALSE
    /\ released = FALSE

\* a calculator that runs without buttons (serial_calculator.py)
NoButton ==
    /\ running = FALSE
    /\ pc = ""
    /\ pin = 1
    /\ now = 0
    /\ char = ""
    /\ DebouncedButton(0)

\* an update() that never takes a low reading for stable
update_misses_press ==
    LET current_reading == pin
        current_time == now
        changed_time == IF current_reading # last_state THEN current_time
                        ELSE last_change_time
        switched == /\ current_time - changed_time > debounce_ms
                    /\ current_reading # current_state
                    /\ current_reading # 0
    IN  /\ last_change_time' = changed_time
        /\ current_state' = IF switched THEN current_reading ELSE current_state
        /\ pressed' = (switched /\ current_reading = 0)
        /\ released' = (switched /\ current_reading # 0)
        /\ last_state' = current_reading
        /\ UNCHANGED debounce_ms

\* an update() whose flags follow the level of a stable reading
update_level_flags ==
    LET current_reading == pin
        current_time == now
        changed_time == IF current_reading # last_state THEN current_time
                        ELSE last_change_time
        stable == current_time - changed_time > debounce_ms
        switched == stable /\ current_reading # current_state
    IN  /\ last_change_time' = changed_time
        /\ current_state' = IF switched THEN current_reading ELSE current_state
        /\ pressed' = (stable /\ current_reading = 0)
        /\ released' = (stable /\ current_reading # 0)
        /\ last_state' = current_reading
        /\ UNCHANGED debounce_ms

\* an update() for which the debounce time itself is long enough
update_at_debounce_time ==
    LET current_reading == pin
        current_time == now
        changed_time == IF current_reading # last_state THEN current_time
                        ELSE last_change_time
        switched == /\ current_time - changed_time >= debounce_ms
                    /\ current_reading # current_state
    IN  /\ last_change_time' = changed_time
        /\ current_state' = IF switched THEN current_reading ELSE current_state
        /\ pressed' = (switched /\ current_reading = 0)
        /\ released' = (switched /\ current_reading # 0)
        /\ last_state' = current_reading
        /\ UNCHANGED debounce_ms

update ==
    LET current_reading == pin
        current_time == now
        changed_time == IF current_reading # last_state THEN current_time
                        ELSE last_change_time
        switched == /\ current_time - changed_time > debounce_ms
                    /\ current_reading # current_state
    IN  /\ last_change_time' = changed_time
        /\ current_state' = IF switched THEN current_reading ELSE current_state
        /\ pressed' = (switched /\ current_reading = 0)
        /\ released' = (switched /\ current_reading # 0)
        /\ last_state' = current_reading
        /\ UNCHANGED debounce_ms

\* update() left by a KeyboardInterrupt raised inside it: the first of its
\* assignments are made, in the order of its statements
update_interrupted ==
    LET current_reading == pin
        current_time == now
        changed_time == IF current_reading # last_state THEN current_time
                        ELSE last_change_time
        switched == /\ current_time - changed_time > debounce_ms
                    /\ current_reading # current_state
        b0 == [last_state |-> last_state, current_state |-> current_state,
               last_change_time |-> last_change_time, pressed |-> pressed,
               released |-> released]
        b1 == [b0 EXCEPT !.pressed = FALSE]
        b2 == [b1 EXCEPT !.released = FALSE]
        b3 == [b2 EXCEPT !.last_change_time = changed_time]
        b4 == [b3 EXCEPT !.current_state = IF switched THEN current_reading ELSE @]
        b5 == [b4 EXCEPT !.pressed = switched /\ current_reading = 0,
                         !.released = switched /\ current_reading # 0]
    IN  /\ \E b \in {b0, b1, b2, b3, b4, b5, [b5 EXCEPT !.last_state = current_reading]} :
              /\ last_state' = b.last_state
              /\ current_state' = b.current_state
              /\ last_change_time' = b.last_change_time
              /\ pressed' = b.pressed
              /\ released' = b.released
        /\ UNCHANGED debounce_ms

(***************************************************************************)
(* The polling loop hands the calculator one character at a time: any key  *)
(* of the keypad, up to MaxKeys of them.                                   *)
(***************************************************************************)
MaxKeys == 5
DigitKeys == {"0", "1"}

Press(k) == nkeys < MaxKeys /\ parse(k) /\ UNCHANGED <<typed, hardware>>

PressOperator == \E k \in OperatorKeys : Press(k)
PressEquals == Press("=")
PressBackspace == Press("b")
PressClearEntry == Press("c")
PressClearAll == Press("C")
PressNegate == Press("n")
PressDecimal == Press(".")
PressDigit == \E k \in DigitKeys : Press(k)
\* characters that are no key of the calculator: two of the keypad and a
\* superscript, which the serial line can deliver
PressUnknown == \E k \in {"(", "%", "²"} : Press(k)

Init == begin(DISPLAY_SIZE) /\ NoDisplay /\ NoButton

Spec == Init /\ [][\/ PressOperator
                   \/ PressEquals
                   \/ PressBackspace
                   \/ PressClearEntry
                   \/ PressClearAll
                   \/ PressNegate
                   \/ PressDecimal
                   \/ PressDigit
                   \/ PressUnknown]_vars

(***************************************************************************)
(* Scripted keypads.  The keys typed so far are kept in typed.             *)
(*   SpecScript types one calculation:  digits operator digits = ... =     *)
(*   SpecChain types calculations that continue from a result:             *)
(*       digits operator digits = ... = operator digits = ...              *)
(***************************************************************************)
MaxScriptKeys == 9
MaxChainKeys == 7
ScriptDigits == {"0", "1"}

HasOperator(t) == \E i \in 1..Len(t) : t[i] \in OperatorKeys

\* the keys typed after the last "="
RECURSIVE Segment(_)
Segment(t) ==
    IF t = <<>> \/ t[Len(t)] = "=" THEN <<>>
    ELSE Segment(SubSeq(t, 1, Len(t) - 1)) \o <<t[Len(t)]>>

Type(k) == parse(k) /\ typed' = Append(typed, k) /\ UNCHANGED hardware

TypeDigit ==
    \E k \in ScriptDigits : nkeys < MaxScriptKeys /\ key # "=" /\ Type(k)
TypeOperator ==
    \E k \in OperatorKeys :
        nkeys < MaxScriptKeys /\ IsDigit(key) /\ ~HasOperator(typed) /\ Type(k)
TypeEquals == nkeys < MaxScriptKeys /\ HasOperator(typed) /\ Type("=")

SpecScript == Init /\ [][\/ TypeDigit
                         \/ TypeOperator
                         \/ TypeEquals]_vars

ChainDigit ==
    \E k \in ScriptDigits : nkeys < MaxChainKeys /\ key # "=" /\ Type(k)
ChainOperator ==
    \E k \in OperatorKeys :
        /\ nkeys < MaxChainKeys
        /\ key = "=" \/ (IsDigit(key) /\ ~HasOperator(Segment(typed)))
        /\ Type(k)
ChainEquals ==
    /\ nkeys < MaxChainKeys
    /\ key = "=" \/ HasOperator(Segment(typed))
    /\ Type("=")

SpecChain == Init /\ [][\/ ChainDigit
                        \/ ChainOperator
                        \/ ChainEquals]_vars

(***************************************************************************)
(* A scripted keypad that changes its mind about the operator:             *)
(*   SpecOverride types  digits operator ... operator digits =             *)
(***************************************************************************)
MaxOverrideKeys == 6

OverrideDigit ==
    \E k \in {"3", "5"} : nkeys < MaxOverrideKeys /\ key # "=" /\ Type(k)
OverrideOperator ==
    \E k \in OperatorKeys :
        /\ nkeys < MaxOverrideKeys
        /\ key \in OperatorKeys \/ (IsDigit(key) /\ ~HasOperator(typed))
        /\ Type(k)
OverrideEquals ==
    /\ nkeys < MaxOverrideKeys
    /\ key # "=" /\ HasOperator(typed)
    /\ Type("=")

SpecOverride == Init /\ [][\/ OverrideDigit
                           \/ OverrideOperator
                           \/ OverrideEquals]_vars

(***************************************************************************)
(* A keypad on which, after at most MaxBackKeys keys of any kind, only the *)
(* backspace key is pressed, again and again (typed holds the backspaces). *)
(* No text the calculator shows is longer than display_size + 2 characters *)
(* (a sign, the digits, a point), so display_size + 3 presses empty any    *)
(* display and leave one press to spare.                                   *)
(***************************************************************************)
MaxBackKeys == 4

AnyKey ==
    \E k \in OperatorKeys \cup {"=", "b", "c", "C", "n", "."} \cup DigitKeys :
        /\ nkeys < MaxBackKeys /\ typed = <<>>
        /\ parse(k) /\ UNCHANGED <<typed, hardware>>
RepeatBackspace == Len(typed) < DISPLAY_SIZE + 3 /\ Type("b")

\* the backspace key keeps being pressed
SpecBackspace == Init /\ [][\/ AnyKey
                            \/ RepeatBackspace]_vars /\ WF_vars(RepeatBackspace)

(***************************************************************************)
(* Number entry on calculators of several display sizes: digits, with the  *)
(* decimal point and the sign key among the first MaxMarkKeys keys.        *)
(***************************************************************************)
MaxEntryKeys == 10
MaxMarkKeys == 4
InitEntry == \E size \in {1, 2, DISPLAY_SIZE} : begin(size) /\ NoDisplay /\ NoButton

EntryDigit == \E k \in ScriptDigits : nkeys < MaxEntryKeys /\ Type(k)
EntryDecimal == nkeys < MaxMarkKeys /\ Type(".")
EntryNegate == nkeys < MaxMarkKeys /\ Type("n")

SpecEntry == InitEntry /\ [][\/ EntryDigit
                             \/ EntryDecimal
                             \/ EntryNegate]_vars

(***************************************************************************)
(* Calculations on calculators of several display sizes:                   *)
(*   SpecFormat types  [n] digits operator digits ... = [n | b | .] ...    *)
(* with the sign key as first key or right after an "=", an operator after *)
(* a digit only, "=" once an operator has been typed, and the backspace    *)
(* and the decimal point right after an "=" only.                          *)
(***************************************************************************)
MaxFormatKeys == 6
InitFormat == \E size \in {4, 6, DISPLAY_SIZE} : begin(size) /\ NoDisplay /\ NoButton

FormatEntry ==
    \E k \in ScriptDigits \cup {"n", ".", "b"} :
        /\ nkeys < MaxFormatKeys
        /\ k = "n" => nkeys = 0 \/ key = "="
        /\ k \in {".", "b"} => key = "="
        /\ Type(k)
FormatCompute ==
    \E k \in OperatorKeys \cup {"="} :
        /\ nkeys < MaxFormatKeys
        /\ k \in OperatorKeys => IsDigit(key)
        /\ k = "=" => HasOperator(typed)
        /\ Type(k)

SpecFormat == InitFormat /\ [][\/ FormatEntry
                               \/ FormatCompute]_vars

(***************************************************************************)
(* One button and its surroundings.  The level of the pin changes at any   *)
(* moment up to MaxTime (a press, a release, a bounce); the loop calls     *)
(* update() and sleeps LOOP_DELAY_MS, again and again.  Time passes up to  *)
(* MaxTime and, beyond it, for as long as a debounce window is open.       *)
(***************************************************************************)
MaxTime == 120
LOOP_DELAY_MS == 10

\* a button constructed with one of several debounce times, on a pin that
\* reads high or low
InitButton ==
    /\ begin(DISPLAY_SIZE)
    /\ NoDisplay
    /\ running = FALSE
    /\ pc = ""
    /\ pin \in {0, 1}
    /\ now = 0
    /\ char = ""
    /\ \E ms \in {0, 20, DEBOUNCE_MS} : DebouncedButton(ms)

PinChange ==
    /\ now < MaxTime
    /\ pin' = 1 - pin
    /\ UNCHANGED <<vars, strip, red, green, blue, brightness, input_str,
                   method, display_exc, ncalls, nprints, running, pc,
                   now, debounce_ms, last_state, current_state,
                   last_change_time, pressed, released, char>>

Tick ==
    /\ now < MaxTime \/ now - last_change_time <= debounce_ms
    /\ now' = now + LOOP_DELAY_MS
    /\ UNCHANGED <<vars, strip, red, green, blue, brightness, input_str,
                   method, display_exc, ncalls, nprints, running, pc,
                   pin, debounce_ms, last_state, current_state,
                   last_change_time, pressed, released, char>>

Update ==
    /\ update
    /\ UNCHANGED <<vars, strip, red, green, blue, brightness, input_str,
                   method, display_exc, ncalls, nprints, running, pc, pin, now, char>>

\* the loop keeps running: update() keeps being called and time keeps passing
SpecButton ==
    /\ InitButton
    /\ [][\/ PinChange
          \/ Tick
          \/ Update]_<<vars, hardware>>
    /\ WF_<<vars, hardware>>(Update)
    /\ WF_<<vars, hardware>>(Tick)

(***************************************************************************)
(* The application (class CalculatorApp): the calculator, its display and  *)
(* one button of the keypad, which carries one of the first MaxButtons     *)
(* characters of BUTTON_PINS; the other buttons are objects of the same    *)
(* class, polled one after the other in the same loop.  The constructor    *)
(* starts the display, runs its self-test, shows "0" and builds the        *)
(* button; then a pass of the loop of run() polls the button, reads a      *)
(* character from the serial line when there is one, and sleeps.  The loop *)
(* takes up to MaxAppKeys keys; typed holds the keys taken.  pc is the     *)
(* call the program makes next.  The pin changes between two calls.  One   *)
(* KeyboardInterrupt can arrive, between two statements or inside a call,  *)
(* which then stops after any of its assignments; one raised during a      *)
(* sleep counts as raised before it.  The clock counts from the moment the *)
(* loop is entered (only differences of time.ticks_ms() are used).         *)
(***************************************************************************)
MaxAppKeys == 2
MaxButtons == 2

\* CalculatorApp() after LEDDisplay(DISPLAY_SIZE, led_pin, LEDS_PER_DIGIT):
\* the calculator and the button, which are not built yet, are written as
\* their constructors will build them
CalculatorApp ==
    /\ LEDDisplay(DISPLAY_SIZE)
    /\ begin(DISPLAY_SIZE)
    /\ running = FALSE
    /\ pc = "begin"
    /\ pin = 1
    /\ now = -(4 * 1000)
    /\ \E i \in 1..MaxButtons : char = BUTTON_PINS[i][2]
    /\ DebouncedButton(DEBOUNCE_MS)

\* the rest of the constructor and the entry of run(), one call after the
\* other: display.begin(DEFAULT_BRIGHTNESS), set_color(*DEFAULT_COLOR),
\* Calculator(DISPLAY_SIZE) and its begin(), set_color(*TEST_COLOR_WHITE),
\* print_test(), set_color(*DEFAULT_COLOR), print_display("0"), the button
\* built on the pin as it reads now, and run() up to the first pass of its
\* loop
Construct ==
    \/ /\ pc = "begin"
       /\ LEDDisplay_begin(ParseFloat(<<"0", ".", "9">>))
       /\ pc' = "default_color"
       /\ UNCHANGED <<vars, input_str, method, display_exc, ncalls, nprints,
                      running, pin, now, debounce_ms, last_state, current_state,
                      last_change_time, pressed, released, char>>
    \/ /\ pc \in {"default_color", "test_color", "set_color"}
       /\ IF pc = "test_color" THEN set_color(255, 255, 255)
          ELSE set_color(0, 255, 0)
       /\ pc' = CASE pc = "default_color" -> "calculator"
                  [] pc = "test_color" -> "print_test"
                  [] pc = "set_color" -> "print_display"
       /\ UNCHANGED <<vars, input_str, method, display_exc, ncalls, nprints,
                      running, pin, now, debounce_ms, last_state, current_state,
                      last_change_time, pressed, released, char>>
    \/ /\ pc = "calculator"
       /\ display_str' = ZERO
       /\ num_str0' = ZERO
       /\ num_str1' = ZERO
       /\ last_key_was_operation' = FALSE
       /\ operation_char' = None
       /\ no_new_number_since_last_calc' = FALSE
       /\ pc' = "test_color"
       /\ UNCHANGED <<display_size, ret, raised, key, nkeys, typed>>
       /\ UNCHANGED <<strip, red, green, blue, brightness, input_str, method,
                      display_exc, ncalls, nprints, running, pin, now,
                      debounce_ms, last_state, current_state, last_change_time,
                      pressed, released, char>>
    \/ /\ print_test("print_test", "set_color")
       /\ UNCHANGED <<vars, method, display_exc, ncalls, nprints, running, pin,
                      debounce_ms, last_state, current_state, last_change_time,
                      pressed, released, char>>
    \/ /\ pc = "print_display"
       /\ LET Printed(result) == /\ strip' = result.strip
                                 /\ display_exc' = result.exc
          IN  Printed(print_display(strip, ZERO))
       /\ input_str' = ZERO
       /\ pc' = "buttons"
       /\ UNCHANGED <<vars, red, green, blue, brightness, method, ncalls,
                      nprints, running, pin, now, debounce_ms, last_state,
                      current_state, last_change_time, pressed, released, char>>
    \/ /\ pc = "buttons"
       /\ debounce_ms' = DEBOUNCE_MS
       /\ last_state' = pin
       /\ current_state' = pin
       /\ last_change_time' = now
       /\ pressed' = FALSE
       /\ released' = FALSE
       /\ pc' = "run"
       /\ UNCHANGED <<vars, strip, red, green, blue, brightness, input_str,
                      method, display_exc, ncalls, nprints, running, pin, now,
                      char>>
    \/ /\ pc = "run"
       /\ running' = TRUE
       /\ pc' = "update"
       /\ UNCHANGED <<vars, strip, red, green, blue, brightness, input_str,
                      method, display_exc, ncalls, nprints, pin, now,
                      debounce_ms, last_state, current_state, last_change_time,
                      pressed, released, char>>

\* process_key with the two calls in the opposite order: the display is
\* written before the engine has handled the key.
process_key_prints_before_parse(key_char, called, printing, return_to) ==
    /\ \/ /\ pc = called
          /\ nkeys < MaxAppKeys
          /\ LET Printed(result) ==
                     /\ strip' = result.strip
                     /\ display_exc' = result.exc
             IN  Printed(print_display(strip, display_str))
          /\ input_str' = display_str
          /\ nprints' = nprints + 1
          /\ pc' = printing
          /\ UNCHANGED vars
       \/ /\ pc = printing
          /\ parse(key_char)
          /\ typed' = Append(typed, key_char)
          /\ pc' = return_to
          /\ UNCHANGED <<strip, input_str, display_exc, nprints>>
    /\ UNCHANGED <<red, green, blue, brightness, method, ncalls, running>>

\* process_key(key_char), called where pc is `called` and returning to
\* `return_to`: parse, then (pc at `printing`) print_display of what it
\* returned; an exception of either leaves process_key for the
\* "except Exception" clause of run()
process_key(key_char, called, printing, return_to) ==
    /\ \/ /\ pc = called
          /\ nkeys < MaxAppKeys
          /\ parse(key_char)
          /\ typed' = Append(typed, key_char)
          /\ pc' = IF raised' THEN "except" ELSE printing
          /\ UNCHANGED <<strip, input_str, display_exc, nprints>>
       \/ /\ pc = printing
          /\ LET Printed(result) ==
                     /\ strip' = result.strip
                     /\ display_exc' = result.exc
                     /\ pc' = IF result.exc = "none" THEN return_to ELSE "except"
             IN  Printed(print_display(strip, ret))
          /\ input_str' = ret
          /\ nprints' = nprints + 1
          /\ UNCHANGED vars
    /\ UNCHANGED <<red, green, blue, brightness, method, ncalls, running>>

\* "button.update(); if button.is_pressed(): self.process_key(char)"
PollButton ==
    \/ /\ pc = "update"
       /\ nkeys < MaxAppKeys
       /\ update
       /\ pc' = IF pressed' THEN "pressed" ELSE "serial"
       /\ UNCHANGED <<vars, strip, red, green, blue, brightness, input_str,
                      method, display_exc, ncalls, nprints, running, pin, now, char>>
    \/ /\ process_key(char, "pressed", "print_button", "serial")
       /\ UNCHANGED <<pin, now, debounce_ms, last_state, current_state,
                      last_change_time, pressed, released, char>>

\* "key = sys.stdin.read(1); if key: self.process_key(key)", or nothing to
\* read
ReadSerial ==
    \/ /\ pc = "serial"
       /\ pc' = "sleep_ms"
       /\ UNCHANGED <<vars, strip, red, green, blue, brightness, input_str,
                      method, display_exc, ncalls, nprints, running, pin, now,
                      debounce_ms, last_state, current_state, last_change_time,
                      pressed, released, char>>
    \/ \E k \in {"5", "²"} :
          /\ process_key(k, "serial", "print_serial", "sleep_ms")
          /\ UNCHANGED <<pin, now, debounce_ms, last_state, current_state,
                         last_change_time, pressed, released, char>>

\* "time.sleep_ms(10)", which ends the pass
Sleep ==
    /\ pc = "sleep_ms"
    /\ now < MaxTime \/ now - last_change_time <= debounce_ms
    /\ now' = now + LOOP_DELAY_MS
    /\ pc' = "update"
    /\ UNCHANGED <<vars, strip, red, green, blue, brightness, input_str,
                   method, display_exc, ncalls, nprints, running, pin,
                   debounce_ms, last_state, current_state, last_change_time,
                   pressed, released, char>>

\* "except Exception as e": the error is printed and the loop starts its
\* next pass
ExceptException ==
    /\ pc = "except"
    /\ pc' = "update"
    /\ UNCHANGED <<vars, strip, red, green, blue, brightness, input_str,
                   method, display_exc, ncalls, nprints, running, pin, now,
                   debounce_ms, last_state, current_state, last_change_time,
                   pressed, released, char>>

\* a KeyboardInterrupt ends the program.  Raised in the "try" of a pass of
\* the loop it is caught ("self.display.clear(); self.display.show();
\* break"); nothing catches it in the constructor, in run() outside the
\* "try" (before the loop and at "while True: try:" between two passes) or
\* in the "except Exception" clause, and main() ends with the strip as it
\* is.  It is raised between two statements, or inside the call the program
\* makes at pc, which leaves a part of its assignments done.
KeyboardInterrupt ==
    LET try == {"update", "pressed", "print_button", "serial", "print_serial",
                "sleep_ms"}
        Button == <<debounce_ms, last_state, current_state, last_change_time,
                    pressed, released>>
        Display == <<red, green, blue, brightness, input_str, display_exc,
                     nprints>>
    IN  /\ pc \notin {"", "stopped"}
        /\ pc' = "stopped"
        /\ running' = FALSE
        /\ \/ /\ strip' = IF pc \in try THEN clear(strip) ELSE strip
              /\ UNCHANGED <<vars, Display, Button, now>>
           \/ /\ pc = "update"
              /\ strip' = strip
              /\ UNCHANGED <<vars, Display, Button, now>>
           \/ /\ pc = "begin"
              /\ brightness' = ParseFloat(<<"0", ".", "9">>)
              /\ \E n \in 0..Len(strip) : strip' = clear_interrupted(strip, n)
              /\ UNCHANGED <<vars, red, green, blue, input_str, display_exc,
                             nprints, Button, now>>
           \/ /\ pc \in {"default_color", "test_color", "set_color"}
              /\ \E c \in IF pc = "test_color"
                          THEN set_color_interrupted(255, 255, 255)
                          ELSE set_color_interrupted(0, 255, 0) :
                    red' = c[1] /\ green' = c[2] /\ blue' = c[3]
              /\ UNCHANGED <<vars, strip, brightness, input_str, display_exc,
                             nprints, Button, now>>
           \/ /\ print_test_interrupted("print_test")
              /\ UNCHANGED <<vars, display_exc, nprints, Button>>
           \/ /\ pc = "print_display"
              /\ \E n \in 0..(Len(strip) + display_size * (LEDS_PER_DIGIT + 1)) :
                    strip' = print_display_interrupted(strip, ZERO, n)
              /\ input_str' = ZERO
              /\ UNCHANGED <<vars, red, green, blue, brightness, display_exc,
                             nprints, Button, now>>
           \/ /\ pc = "buttons"
              /\ \E n \in 1..3 :
                    /\ last_state' = pin
                    /\ current_state' = IF n >= 2 THEN pin ELSE current_state
                    /\ last_change_time' = IF n >= 3 THEN now ELSE last_change_time
              /\ UNCHANGED <<vars, strip, Display, debounce_ms, pressed,
                             released, now>>
           \/ /\ pc = "update"
              /\ nkeys < MaxAppKeys
              /\ update_interrupted
              /\ strip' = clear(strip)
              /\ UNCHANGED <<vars, Display, now>>
           \/ /\ pc \in {"pressed", "serial"}
              /\ nkeys < MaxAppKeys
              /\ \E k \in IF pc = "pressed" THEN {char} ELSE {"5", "²"} :
                    parse_interrupted(k) /\ typed' = Append(typed, k)
              /\ strip' = clear(strip)
              /\ UNCHANGED <<Display, Button, now>>
           \/ /\ pc \in {"print_button", "print_serial"}
              /\ input_str' = ret
              /\ nprints' = nprints + 1
              /\ strip' = clear(strip)
              /\ UNCHANGED <<vars, red, green, blue, brightness, display_exc,
                             Button, now>>
        /\ UNCHANGED <<method, ncalls, pin, char>>

SpecApp ==
    CalculatorApp /\ [][\/ Construct
                        \/ PollButton
                        \/ ReadSerial
                        \/ Sleep
                        \/ ExceptException
                        \/ KeyboardInterrupt
                        \/ PinChange]_<<vars, hardware>>

(***************************************************************************)
(* The display alone, as test_led_display.py drives it: an LEDDisplay of   *)
(* some size and up to MaxCalls calls of its methods, with the colours,    *)
(* the digits and the strings of the tests and of the engine.              *)
(***************************************************************************)
MaxCalls == 2

InitDisplay ==
    \E size \in {3, DISPLAY_SIZE} :
        /\ begin(size)
        /\ LEDDisplay(size)
        /\ NoButton

PrintDisplay ==
    \E s \in {<<>>, <<"1">>, <<"5">>, <<"1", "2", "3">>,
              <<"1", "2", "3", "4", "5", "6", "7", "8", "9">>,
              <<"1", "2", "3", "4", "5", "6", "7", "8", "9", "0">>,
              <<"8", "8", "8", "8", "8", "8", "8", "8", "8">>,
              <<"4", "2">>, <<"7">>, <<"0", "0", "0">>, <<"0", "0", "1", "2", "3">>,
              <<"3", ".", "1", "4">>, <<"5", ".">>, <<"0", ".">>,
              <<"1", ".", "2", ".", "3">>, <<".">>, <<".", "5">>,
              <<"1", ".", ".", "7">>, <<"1", ".", "7", ".">>,
              <<"-", "0", ".", "5">>, <<"-">>, <<"-", ".", "5">>,
              <<"1", "2", "a", "b", "c", "3", "4">>, <<"-", "5">>,
              <<"1", "e", "+", "1", "8">>, <<"E", "r", "r", "o", "r">>,
              <<"²">>, <<"²", "1">>} :
        /\ pc = ""
        /\ ncalls < MaxCalls
        /\ ncalls' = ncalls + 1
        /\ method' = "print_display"
        /\ LET Printed(result) == /\ strip' = result.strip
                                  /\ display_exc' = result.exc
           IN  Printed(print_display(strip, s))
        /\ input_str' = s
        /\ UNCHANGED <<vars, red, green, blue, brightness, nprints, running, pc,
                       pin, now, debounce_ms, last_state, current_state,
                       last_change_time, pressed, released, char>>

SetColor ==
    \E c \in {<<255, 255, 255>>, <<255, 0, 0>>, <<0, 255, 0>>, <<0, 0, 255>>,
              <<0, 255, 128>>, <<100, 100, 100>>, <<200, 200, 200>>,
              <<255, 100, 50>>} :
        /\ pc = ""
        /\ ncalls < MaxCalls
        /\ ncalls' = ncalls + 1
        /\ method' = "set_color"
        /\ set_color(c[1], c[2], c[3])
        /\ display_exc' = "none"
        /\ UNCHANGED <<vars, input_str, nprints, running, pc,
                       pin, now, debounce_ms, last_state, current_state,
                       last_change_time, pressed, released, char>>

Clear ==
    /\ pc = ""
    /\ ncalls < MaxCalls
    /\ ncalls' = ncalls + 1
    /\ method' = "clear"
    /\ strip' = clear(strip)
    /\ display_exc' = "none"
    /\ UNCHANGED <<vars, red, green, blue, brightness, input_str, nprints,
                   running, pc, pin, now, debounce_ms, last_state, current_state,
                   last_change_time, pressed, released, char>>

Begin ==
    \E b \in {<<"0", ".", "9">>, <<"0", ".", "5">>} :
        /\ pc = ""
        /\ ncalls < MaxCalls
        /\ ncalls' = ncalls + 1
        /\ method' = "begin"
        /\ LEDDisplay_begin(ParseFloat(b))
        /\ display_exc' = "none"
        /\ UNCHANGED <<vars, input_str, nprints, running, pc,
                       pin, now, debounce_ms, last_state, current_state,
                       last_change_time, pressed, released, char>>

SetOneDigit ==
    \E call \in ({<<digit, 0, FALSE>> : digit \in 0..9}
                  \cup {<<255, 0, FALSE>>, <<5, 0, TRUE>>, <<5, 5, FALSE>>,
                        <<8, display_size - 1, TRUE>>}) :
        /\ pc = ""
        /\ ncalls < MaxCalls
        /\ call[2] < display_size
        /\ ncalls' = ncalls + 1
        /\ method' = "set_one_digit"
        /\ strip' = set_one_digit(strip, call[1], call[2], call[3])
        /\ display_exc' = "none"
        /\ UNCHANGED <<vars, red, green, blue, brightness, input_str, nprints,
                       running, pc, pin, now, debounce_ms, last_state,
                       current_state, last_change_time, pressed, released, char>>

PrintTest ==
    /\ print_test("", "")
    /\ IF pc = ""
       THEN /\ ncalls < MaxCalls
            /\ ncalls' = ncalls + 1
            /\ method' = "print_test"
            /\ display_exc' = "none"
       ELSE UNCHANGED <<ncalls, method, display_exc>>
    /\ UNCHANGED <<vars, nprints, running, pin, debounce_ms, last_state,
                   current_state, last_change_time, pressed, released, char>>

SpecDisplay ==
    InitDisplay /\ [][\/ PrintDisplay
                      \/ SetColor
                      \/ Clear
                      \/ Begin
                      \/ SetOneDigit
                      \/ PrintTest]_<<vars, hardware>>

(***************************************************************************)
(* Reference arithmetic: the decimal numeral of the exact result of        *)
(* a op b for operands written with digits only, by schoolbook arithmetic  *)
(* on natural numbers.                                                     *)
(***************************************************************************)
AllDigits(s) == s # <<>> /\ \A i \in 1..Len(s) : IsDigit(s[i])
DigitCount(s) == Cardinality({i \in 1..Len(s) : IsDigit(s[i])})
PointCount(s) == Cardinality({i \in 1..Len(s) : s[i] = "."})

RECURSIVE StripLeadingZeros(_)
StripLeadingZeros(ds) ==
    IF Len(ds) > 1 /\ ds[1] = 0 THEN StripLeadingZeros(Tail(ds)) ELSE ds

NatOf(s) == DecToBig(StrToDigits(s), Len(s))
NatNumeral(a) ==
    DigitsToStr(StripLeadingZeros(IF a = <<>> THEN <<0>> ELSE BigToDec(a)))

\* the greatest digit d with d * b <= r  (r < 10 * b)
QuotDigit(r, b) ==
    CHOOSE d \in 0..9 :
        /\ BigCmp(BigMulSmall(b, d), r) <= 0
        /\ d = 9 \/ BigCmp(BigMulSmall(b, d + 1), r) > 0

\* long division of the first n digits of ds by b: quotient digits, remainder
RECURSIVE LongDivide(_, _, _)
LongDivide(ds, n, b) ==
    IF n = 0 THEN [q |-> <<>>, r |-> <<>>]
    ELSE LET prev == LongDivide(ds, n - 1, b)
             cur == BigAdd(BigMulSmall(prev.r, 10), BigFromInt(ds[n]))
             d == QuotDigit(cur, b)
         IN  [q |-> Append(prev.q, d), r |-> BigSub(cur, BigMulSmall(b, d))]

\* up to n digits after the point of r / b, and the remainder left
RECURSIVE FractionDigits(_, _, _)
FractionDigits(r, b, n) ==
    IF n = 0 \/ r = <<>> THEN [q |-> <<>>, r |-> r]
    ELSE LET cur == BigMulSmall(r, 10)
             d == QuotDigit(cur, b)
             rest == FractionDigits(BigSub(cur, BigMulSmall(b, d)), b, n - 1)
         IN  [q |-> <<d>> \o rest.q, r |-> rest.r]

\* defined: not a division by zero; exact: text is the whole result
Exact(a, op, b, size) ==
    LET A == NatOf(a)
        B == NatOf(b)
    IN  CASE op = "+" -> [defined |-> TRUE, exact |-> TRUE, text |-> NatNumeral(BigAdd(A, B))]
          [] op = "-" -> [defined |-> TRUE, exact |-> TRUE,
                          text |-> IF BigCmp(A, B) >= 0 THEN NatNumeral(BigSub(A, B))
                                   ELSE <<"-">> \o NatNumeral(BigSub(B, A))]
          [] op = "*" -> [defined |-> TRUE, exact |-> TRUE, text |-> NatNumeral(BigMul(A, B))]
          [] op = "/" ->
               IF B = <<>> THEN [defined |-> FALSE, exact |-> FALSE, text |-> <<>>]
               ELSE LET ip == LongDivide(StrToDigits(a), Len(a), B)
                        fp == FractionDigits(ip.r, B, size)
                    IN  [defined |-> TRUE, exact |-> fp.r = <<>>,
                         text |-> DigitsToStr(StripLeadingZeros(ip.q))
                                  \o (IF fp.q = <<>> THEN <<>>
                                      ELSE <<".">> \o DigitsToStr(fp.q))]

\* the exact result exists and its numeral has at most size digits
Fits(x, size) == x.defined /\ x.exact /\ DigitCount(x.text) <= size

(***************************************************************************)
(* Properties of the key-event state machine.                              *)
(***************************************************************************)
\* one key was handled in this step
Handled(k) == key' = k /\ nkeys' = nkeys + 1

\* optional "-" removed
Unsigned(s) == IF s # <<>> /\ s[1] = "-" THEN Tail(s) ELSE s

\* a valid numeral token: optional "-", digits, optional "." and digits
IsNumeral(s) ==
    LET body == Unsigned(s)
        p == SpanDigits(body, 1)
    IN  /\ p > 1
        /\ \/ p = Len(body) + 1
           \/ /\ p < Len(body)
              /\ body[p] = "."
              /\ SpanDigits(body, p + 1) = Len(body) + 1

\* a numeral followed by "."
IsNumeralPoint(s) ==
    LET body == Unsigned(s)
    IN  /\ Len(body) > 1
        /\ body[Len(body)] = "."
        /\ SpanDigits(body, 1) = Len(body)

\* text as the keypad enters it: optional "-", digits, at most one "."
IsEntry(s) ==
    LET body == Unsigned(s)
        p == SpanDigits(body, 1)
    IN  \/ p = Len(body) + 1
        \/ body[p] = "." /\ SpanDigits(body, p + 1) = Len(body) + 1

Parses(s) == ParseFloat(s) # ValueError

\* the display denotes the number written by text
Shows(display, text) == Parses(display) /\ ParseFloat(display) = ParseFloat(text)

\* C1: parse returns the current display and never raises; a "=" that reads
\* an operand that does not parse, or that divides by zero, ends with the
\* display "Error".
C1_NeverRaises ==
    /\ [](~raised /\ ret = display_str)
    /\ [][(/\ Handled("=")
           /\ \/ ~Parses(num_str0)
              \/ ~Parses(num_str1')
              \/ operation_char = "/" /\ IsZero(ParseFloat(num_str1')))
          => (display_str' = ERROR /\ ret' = ERROR /\ ~raised')]_vars

\* "=" has just read an operand that does not parse and shown Error
C1_Witness ==
    /\ key = "="
    /\ ~Parses(num_str1)
    /\ display_str = ERROR
    /\ ret = ERROR
    /\ ~raised

\* C2: the display is never the empty string.
C2_DisplayNeverEmpty == display_str # <<>>

\* C3: the display is a numeral, "-", "Error" or a numeral ending in ".".
C3_DisplayForm ==
    \/ IsNumeral(display_str)
    \/ display_str = <<"-">>
    \/ display_str = ERROR
    \/ IsNumeralPoint(display_str)

\* C4: both operands always hold text that parses as a finite number.
C4_OperandsParse ==
    /\ Parses(num_str0) /\ ParseFloat(num_str0).cls = "fin"
    /\ Parses(num_str1) /\ ParseFloat(num_str1).cls = "fin"

\* C4 as amended: the second operand always holds text as entered (optional
\* "-", the characters parse takes for digits, at most one ".") and parses as
\* a finite number whenever it has a digit and all its digits are among 0-9;
\* the first operand is a copy of a display and need not parse; a "=" that
\* reads an operand that does not parse shows Error and leaves the first
\* operand as it was.
C4_OperandsAmended ==
    /\ [](LET n == Len(num_str1)
              shape == [i \in 1..n |-> IF isdigit(num_str1[i]) THEN "0"
                                       ELSE num_str1[i]]
          IN  /\ IsEntry(shape)
              /\ (/\ DigitCount(num_str1) > 0
                  /\ \A i \in 1..n : isdigit(num_str1[i]) => IsDigit(num_str1[i]))
                   => (Parses(num_str1) /\ ParseFloat(num_str1).cls = "fin"))
    /\ [][(Handled("=") /\ (~Parses(num_str0) \/ ~Parses(num_str1')))
          => (display_str' = ERROR /\ num_str0' = num_str0)]_vars
    /\ [][(\E k \in OperatorKeys : Handled(k)) => num_str0' = display_str]_vars

\* an operator key stored the bare sign as first operand and "=" read it
C4_Witness ==
    /\ key = "="
    /\ num_str0 = <<"-">>
    /\ operation_char \in OperatorKeys
    /\ display_str = ERROR

\* C5: the display shows at most display_size digits unless it is Error or a
\* numeral in scientific notation (the only numerals the formatter truncates).
C5_DigitsWithinWidth ==
    \/ display_str = ERROR
    \/ Contains(display_str, "e")
    \/ DigitCount(display_str) <= display_size

\* C6: the display holds at most one ".".
C6_OnePoint == PointCount(display_str) <= 1

\* "." was pressed on a display that already had one, and was ignored
C6_Witness ==
    /\ key = "."
    /\ Contains(display_str, ".")
    /\ display_str[Len(display_str)] # "."

\* C7: after  a op b =  typed from reset (a, b digits; b # 0 for "/") the
\* display is the numeral of the exact result whenever that numeral has at
\* most display_size digits.
C7_ExactResult ==
    \A p \in 2..(Len(typed) - 2) :
        (/\ typed[Len(typed)] = "="
         /\ typed[p] \in OperatorKeys
         /\ AllDigits(SubSeq(typed, 1, p - 1))
         /\ AllDigits(SubSeq(typed, p + 1, Len(typed) - 1)))
        => LET x == Exact(SubSeq(typed, 1, p - 1), typed[p],
                          SubSeq(typed, p + 1, Len(typed) - 1), display_size)
           IN  Fits(x, display_size) => display_str = x.text

\* C8: "=" with operator "/" and a zero second operand shows Error and keeps
\* the first operand and the operator.
C8_DivisionByZeroKeepsHistory ==
    [][(/\ Handled("=")
        /\ operation_char = "/"
        /\ IsZero(ParseFloat(num_str1')))
       => (/\ display_str' = ERROR
           /\ num_str0' = num_str0
           /\ operation_char' = operation_char)]_vars

\* 1 / 0 = has just been handled
C8_Witness ==
    /\ key = "="
    /\ operation_char = "/"
    /\ num_str0 = <<"1">>
    /\ IsZero(ParseFloat(num_str1))
    /\ display_str = ERROR

\* C9: a "=" directly after a "=" that produced a result keeps the second
\* operand and the operator and sets display and first operand to the same
\* text, which denotes (previous result op second operand) whenever that
\* number can be written with display_size digits.
C9_RepeatedEquals ==
    [][(/\ key = "="
        /\ Handled("=")
        /\ operation_char \in OperatorKeys
        /\ display_str # ERROR)
       => (/\ num_str1' = num_str1
           /\ operation_char' = operation_char
           /\ display_str' = num_str0'
           /\ (AllDigits(display_str) /\ AllDigits(num_str1)) =>
                LET x == Exact(display_str, operation_char, num_str1, display_size)
                IN  Fits(x, display_size) => Shows(display_str', x.text))]_vars

\* 1 + 1 = = shows 3
C9_Witness ==
    /\ typed = <<"1", "+", "1", "=", "=">>
    /\ num_str1 = <<"1">>
    /\ display_str = <<"3">>

\* C10: after a "=" that evaluates, display and first operand both hold the
\* result, the operator is unchanged and no_new_number_since_last_calc is
\* set; so  a op b = op2 c =  shows the number ((a op b) op2 c) whenever
\* both results can be written with display_size digits.
C10_ResultIsFirstOperand ==
    /\ [][(Handled("=") /\ operation_char \in OperatorKeys /\ display_str' # ERROR)
          => (/\ display_str' = num_str0'
              /\ operation_char' = operation_char
              /\ no_new_number_since_last_calc')]_vars
    /\ [](\A p \in 2..Len(typed), q \in 2..Len(typed), r \in 2..Len(typed) :
            (/\ p < q - 1 /\ r = q + 1 /\ r < Len(typed) - 1
             /\ typed[Len(typed)] = "="
             /\ typed[p] \in OperatorKeys
             /\ typed[q] = "="
             /\ typed[r] \in OperatorKeys
             /\ AllDigits(SubSeq(typed, 1, p - 1))
             /\ AllDigits(SubSeq(typed, p + 1, q - 1))
             /\ AllDigits(SubSeq(typed, r + 1, Len(typed) - 1)))
            => LET x == Exact(SubSeq(typed, 1, p - 1), typed[p],
                              SubSeq(typed, p + 1, q - 1), display_size)
               IN  (Fits(x, display_size) /\ AllDigits(x.text)) =>
                     LET y == Exact(x.text, typed[r],
                                    SubSeq(typed, r + 1, Len(typed) - 1), display_size)
                     IN  Fits(y, display_size) => Shows(display_str, y.text))

\* 1 + 1 = + 1 = shows 3
C10_Witness ==
    /\ typed = <<"1", "+", "1", "=", "+", "1", "=">>
    /\ num_str0 = <<"3">>
    /\ display_str = <<"3">>
    /\ no_new_number_since_last_calc

\* C11: an operator key pressed right after an operator key leaves the
\* display and the first operand (a copy of that display) as they were and
\* replaces the pending operator; so  a op1 ... opN b =  shows the number
\* (a opN b) whenever it can be written with display_size digits.
C11_OperatorOverride ==
    /\ [][(key \in OperatorKeys /\ \E k \in OperatorKeys : Handled(k))
          => (/\ display_str' = display_str
              /\ num_str0' = display_str
              /\ num_str0' = num_str0
              /\ operation_char' = key'
              /\ UNCHANGED num_str1)]_vars
    /\ [](\A p \in 2..Len(typed), q \in 2..Len(typed) :
            (/\ p < q /\ q < Len(typed) - 1
             /\ typed[Len(typed)] = "="
             /\ \A i \in p..q : typed[i] \in OperatorKeys
             /\ AllDigits(SubSeq(typed, 1, p - 1))
             /\ AllDigits(SubSeq(typed, q + 1, Len(typed) - 1)))
            => LET x == Exact(SubSeq(typed, 1, p - 1), typed[q],
                              SubSeq(typed, q + 1, Len(typed) - 1), display_size)
               IN  Fits(x, display_size) =>
                     (Shows(display_str, x.text) /\ operation_char = typed[q]))

\* 5 + - 3 = shows 2
C11_Witness ==
    /\ typed = <<"5", "+", "-", "3", "=">>
    /\ operation_char = "-"
    /\ num_str1 = <<"3">>
    /\ display_str = <<"2">>

\* C12: a "=" handled while no operator is pending leaves the display as it
\* was and shows no error.
C12_EqualsWithoutOperator ==
    [][(Handled("=") /\ operation_char = None)
       => (display_str' = display_str /\ display_str' # ERROR)]_vars

\* C13: a character that is not a digit 0-9, an operator, "=", ".", "n",
\* "b", "c" or "C" changes nothing: display, both operands, the pending
\* operator and both flags stay, and parse returns the display as it was.
C13_UnknownIgnored ==
    [][(/\ nkeys' = nkeys + 1
        /\ ~IsDigit(key')
        /\ key' \notin OperatorKeys \cup {"=", ".", "n", "b", "c", "C"})
       => (/\ UNCHANGED <<display_str, num_str0, num_str1, operation_char,
                          last_key_was_operation, no_new_number_since_last_calc>>
           /\ ret' = display_str
           /\ ~raised')]_vars

\* C14: "C" leaves the state of a calculator just constructed and reset,
\* whatever came before: display "0", both operands "0", no pending
\* operator, both flags false.
C14_ClearAllResets ==
    /\ [](nkeys = 0 => calc = <<ZERO, ZERO, ZERO, None, FALSE, FALSE>>)
    /\ [][Handled("C") => (/\ calc' = <<ZERO, ZERO, ZERO, None, FALSE, FALSE>>
                           /\ ret' = ZERO
                           /\ ~raised')]_vars

\* "C" was the fifth key
C14_Witness ==
    /\ key = "C"
    /\ nkeys = 5
    /\ calc = <<ZERO, ZERO, ZERO, None, FALSE, FALSE>>

\* C15: "c" sets the display to "0" and leaves both operands, the pending
\* operator and both flags as they were.
C15_ClearEntryKeepsHistory ==
    [][Handled("c")
       => (/\ display_str' = ZERO
           /\ ret' = ZERO
           /\ UNCHANGED <<num_str0, num_str1, operation_char,
                          last_key_was_operation, no_new_number_since_last_calc>>)]_vars

\* "c" was pressed on a result: the operands, the operator and the flag of
\* the calculation are still there
C15_Witness ==
    /\ key = "c"
    /\ display_str = ZERO
    /\ num_str0 = <<"2">>
    /\ num_str1 = <<"1">>
    /\ operation_char = "+"
    /\ no_new_number_since_last_calc

\* C16: a backspace on a display of more than one character removes its
\* last character, any other backspace sets the display to "0", and none
\* leaves the empty string; a backspace on "0" keeps "0"; when the backspace
\* key keeps being pressed the display becomes "0" and stays "0".
C16_BackspaceReachesZero ==
    /\ [][Handled("b")
          => (/\ display_str' = IF Len(display_str) > 1
                                THEN SubSeq(display_str, 1, Len(display_str) - 1)
                                ELSE ZERO
              /\ display_str' # <<>>
              /\ display_str = ZERO => display_str' = ZERO)]_vars
    /\ <>[](display_str = ZERO)

\* "Error" was cleared by five backspaces, and a sixth kept "0"
C16_Witness ==
    /\ typed = <<"b", "b", "b", "b", "b", "b">>
    /\ operation_char = "/"
    /\ num_str1 = ZERO
    /\ num_str0 = <<"1">>
    /\ display_str = ZERO

\* C17: whatever the display size (at least 1), digits entered one at a
\* time from the reset state, no more of them than the display size, give
\* a display equal to the digits typed.
C17_DigitsAsTyped ==
    (display_size >= 1 /\ AllDigits(typed) /\ Len(typed) <= display_size)
        => display_str = typed

\* C18: a digit that arrives while neither flag is set and the display
\* already holds display_size digits (the sign and the point do not count)
\* changes nothing; with fewer digits it is appended to the display (it
\* replaces a display that is just "0") and nothing else changes.  So on a
\* display of size 9 a tenth digit in a row leaves the first nine.
C18_DigitLimit ==
    /\ [][(/\ nkeys' = nkeys + 1
           /\ IsDigit(key')
           /\ ~last_key_was_operation
           /\ ~no_new_number_since_last_calc)
          => (/\ IF DigitCount(display_str) >= display_size
                 THEN display_str' = display_str
                 ELSE display_str' = IF display_str = ZERO THEN <<key'>>
                                     ELSE Append(display_str, key')
              /\ ret' = display_str'
              /\ UNCHANGED <<num_str0, num_str1, operation_char,
                             last_key_was_operation, no_new_number_since_last_calc>>)]_vars
    /\ []((/\ display_size = DISPLAY_SIZE
           /\ Len(typed) = DISPLAY_SIZE + 1
           /\ AllDigits(typed)
           /\ typed[1] # "0")
          => display_str = SubSeq(typed, 1, DISPLAY_SIZE))

\* ten digits were typed on the display of size 9: the tenth was dropped
C18_Witness ==
    /\ display_size = DISPLAY_SIZE
    /\ typed = <<"1", "0", "1", "0", "1", "0", "1", "0", "1", "1">>
    /\ display_str = <<"1", "0", "1", "0", "1", "0", "1", "0", "1">>

\* C19: a "." that arrives while neither flag is set changes nothing when
\* the display already has a ".", and otherwise appends one "." to the
\* display and changes nothing else; so  a . b . c  shows "a.bc" on a
\* display with room for three digits.
C19_SecondPointIgnored ==
    /\ [][(/\ Handled(".")
           /\ ~last_key_was_operation
           /\ ~no_new_number_since_last_calc)
          => (/\ IF Contains(display_str, ".")
                 THEN display_str' = display_str
                 ELSE display_str' = Append(display_str, ".")
              /\ ret' = display_str'
              /\ UNCHANGED <<num_str0, num_str1, operation_char,
                             last_key_was_operation, no_new_number_since_last_calc>>)]_vars
    /\ []((/\ display_size >= 3
           /\ Len(typed) = 5
           /\ IsDigit(typed[1]) /\ typed[2] = "." /\ IsDigit(typed[3])
           /\ typed[4] = "." /\ IsDigit(typed[5]))
          => display_str = <<typed[1], ".", typed[3], typed[5]>>)

\* 1 . 0 . 1 shows "1.01"
C19_Witness ==
    /\ display_size = DISPLAY_SIZE
    /\ typed = <<"1", ".", "0", ".", "1">>
    /\ display_str = <<"1", ".", "0", "1">>

\* C20: on a display that is a numeral other than "0", signed or not, a
\* second "n" right after a first returns the display the first one found:
\* the "n" just handled is undone by the next.
C20_NegateInvolution ==
    [][(Handled("n") /\ IsNumeral(display_str) /\ display_str # ZERO)
       => Negated(display_str') = display_str]_vars

\* C21: whenever the display is "Error", no_new_number_since_last_calc is
\* set; a digit that arrives then leaves the display exactly that digit,
\* and "c" and "C" each leave "0".  From any state "c" and "C" lead to a
\* numeral display, so no state is without a way back to one.
C21_ErrorRecoverable ==
    /\ [](display_str = ERROR => no_new_number_since_last_calc)
    /\ [][(display_str = ERROR /\ nkeys' = nkeys + 1 /\ IsDigit(key'))
          => (display_str' = <<key'>> /\ ret' = <<key'>>)]_vars
    /\ [][(Handled("c") \/ Handled("C"))
          => (display_str' = ZERO /\ IsNumeral(display_str') /\ ret' = ZERO)]_vars

\* 1 / 0 = showed "Error", and the digit 1 typed next is all the display shows
C21_Witness ==
    /\ nkeys = 5
    /\ key = "1"
    /\ operation_char = "/"
    /\ num_str0 = <<"1">>
    /\ num_str1 = ZERO
    /\ display_str = <<"1">>
    /\ ~no_new_number_since_last_calc

\* C22: an "=" that computes a value (operator pending, both operands
\* numbers, no division by zero) shows the formatter's string, which has at
\* most display_size + 1 characters; when the shortest rendering of the
\* value is longer, the string is the scientific notation of the value with
\* display_size - 5 fractional digits, cut to display_size + 1 characters.
C22_FormatterWidth ==
    [][(/\ Handled("=")
        /\ operation_char \in OperatorKeys
        /\ Parses(num_str0)
        /\ Parses(num_str1')
        /\ ~(operation_char = "/" /\ IsZero(ParseFloat(num_str1'))))
       => (/\ display_str' # ERROR
           /\ Len(display_str') <= display_size + 1
           /\ (\E i \in 1..Len(display_str') : display_str'[i] = "e")
                  => \/ Len(display_str') = display_size + 1
                     \/ \E i \in 1..Len(display_str') :
                            /\ display_str'[i] = "e"
                            /\ i - 1 <= display_size - 3)]_vars

\* C23: operation_char is always None or one of + - * /; it is None after
\* construction, and after a key it is None exactly when the key was "C",
\* or when it was None before and the key was not an operator.
C23_OperatorPresence ==
    /\ [](operation_char \in OperatorKeys \cup {None})
    /\ [](nkeys = 0 => operation_char = None)
    /\ [][nkeys' = nkeys + 1
          => (operation_char' = None
                <=> \/ key' = "C"
                    \/ operation_char = None /\ key' \notin OperatorKeys)]_vars

\* 1 + 1 = c : the operator set by "+" is still pending after "=" and "c"
C23_Witness ==
    /\ nkeys = 5
    /\ key = "c"
    /\ operation_char = "+"
    /\ num_str0 = <<"2">>
    /\ no_new_number_since_last_calc
    /\ display_str = ZERO

\* C24: an operator key makes itself the pending operator, copies the
\* display into the first operand, sets last_key_was_operation, and leaves
\* the display, the second operand and no_new_number_since_last_calc as
\* they were; so  a op1 b op2 c =  shows the number (b op2 c) whenever it
\* can be written with display_size digits.
C24_OperatorNeverEvaluates ==
    /\ [][(\E k \in OperatorKeys : Handled(k))
          => (/\ operation_char' = key'
              /\ num_str0' = display_str
              /\ last_key_was_operation'
              /\ ret' = display_str
              /\ UNCHANGED <<display_str, num_str1,
                             no_new_number_since_last_calc>>)]_vars
    /\ [](\A p \in 2..Len(typed), q \in 2..Len(typed) :
            (/\ p < q - 1 /\ q < Len(typed) - 1
             /\ typed[Len(typed)] = "="
             /\ typed[p] \in OperatorKeys
             /\ typed[q] \in OperatorKeys
             /\ AllDigits(SubSeq(typed, 1, p - 1))
             /\ AllDigits(SubSeq(typed, p + 1, q - 1))
             /\ AllDigits(SubSeq(typed, q + 1, Len(typed) - 1)))
            => LET x == Exact(SubSeq(typed, p + 1, q - 1), typed[q],
                              SubSeq(typed, q + 1, Len(typed) - 1), display_size)
               IN  Fits(x, display_size) =>
                     (Shows(display_str, x.text) /\ operation_char = typed[q]))

\* 1 + 0 * 1 = shows 0, the product of 0 and 1
C24_Witness ==
    /\ typed = <<"1", "+", "0", "*", "1", "=">>
    /\ operation_char = "*"
    /\ num_str1 = <<"1">>
    /\ num_str0 = ZERO
    /\ display_str = ZERO

\* C25 as claimed: in any reachable state, "=" pressed right after an
\* operator key shows the number (x op x), x being the display the operator
\* key was pressed on (x written with digits, the result with at most
\* display_size digits).
C25_EqualsRepeatsFirst ==
    [][(key \in OperatorKeys /\ Handled("=") /\ AllDigits(display_str))
       => LET y == Exact(display_str, key, display_str, display_size)
          IN  Fits(y, display_size) => Shows(display_str', y.text)]_vars

\* C25: "=" pressed right after an operator key takes the display x the
\* operator key was pressed on as the second operand only when no result is
\* pending, and then shows (x op x); when the operator key was pressed on a
\* result (no_new_number_since_last_calc still set), the second operand of
\* the earlier "=" is kept and the display shows (x op that operand).  The
\* second operand may be any text: the result is stated when it is written
\* with digits.
C25_EqualsRepeatsAmended ==
    [][(key \in OperatorKeys /\ Handled("=") /\ AllDigits(display_str))
       => LET x == display_str
              b == IF no_new_number_since_last_calc THEN num_str1 ELSE x
              y == Exact(x, key, b, display_size)
          IN  /\ num_str1' = b
              /\ (AllDigits(b) /\ Fits(y, display_size))
                   => Shows(display_str', y.text)]_vars

\* 1 + = shows 2 with the second operand 1; then + = shows 2 + 1, not 2 + 2
C25_Witness ==
    /\ typed = <<"1", "+", "=", "+", "=">>
    /\ key = "="
    /\ no_new_number_since_last_calc
    /\ num_str0 = <<"3">>
    /\ num_str1 = <<"1">>
    /\ display_str = <<"3">>

\* C26: a digit handled while last_key_was_operation or
\* no_new_number_since_last_calc is set leaves the display exactly that
\* digit; after every digit both flags are clear.
C26_DigitStartsFresh ==
    /\ [][(/\ nkeys' = nkeys + 1
           /\ IsDigit(key')
           /\ last_key_was_operation \/ no_new_number_since_last_calc)
          => (display_str' = <<key'>> /\ ret' = <<key'>>)]_vars
    /\ [](IsDigit(key) =>
            (~last_key_was_operation /\ ~no_new_number_since_last_calc))

\* 1 + = left both flags set and showed 2; the digit 1 typed next replaced it
C26_Witness ==
    /\ nkeys = 4
    /\ key = "1"
    /\ operation_char = "+"
    /\ num_str0 = <<"2">>
    /\ num_str1 = <<"1">>
    /\ display_str = <<"1">>
    /\ ~last_key_was_operation
    /\ ~no_new_number_since_last_calc

\* C27: a decimal point handled while last_key_was_operation or
\* no_new_number_since_last_calc is set leaves the display "0." and both
\* flags clear, and the digit d handled next leaves the display "0.d".
C27_DecimalStartsFresh ==
    /\ [][(/\ Handled(".")
           /\ last_key_was_operation \/ no_new_number_since_last_calc)
          => (/\ display_str' = <<"0", ".">>
              /\ ~last_key_was_operation'
              /\ ~no_new_number_since_last_calc')]_vars
    /\ [][(/\ key = "."
           /\ display_str = <<"0", ".">>
           /\ nkeys' = nkeys + 1
           /\ IsDigit(key'))
          => display_str' = <<"0", ".", key'>>]_vars

\* C28: last_key_was_operation and no_new_number_since_last_calc are both
\* set only in a state reached by an "=" handled while
\* last_key_was_operation was set (an operator key, then no digit).
C28_BothFlagsOnlyAfterEquals ==
    [][(/\ nkeys' = nkeys + 1
        /\ last_key_was_operation'
        /\ no_new_number_since_last_calc')
       => (key' = "=" /\ last_key_was_operation)]_vars

\* C28, amended: after a key both flags are set exactly when the key was
\* "=" and last_key_was_operation was set, or the key was an operator and
\* no_new_number_since_last_calc was set, or both flags were set and the
\* key was not one parse takes for a digit, "." or "C".
C28_BothFlagsAmended ==
    [][nkeys' = nkeys + 1
       => ((last_key_was_operation' /\ no_new_number_since_last_calc')
             <=> \/ key' = "=" /\ last_key_was_operation
                 \/ key' \in OperatorKeys /\ no_new_number_since_last_calc
                 \/ /\ last_key_was_operation
                    /\ no_new_number_since_last_calc
                    /\ ~isdigit(key')
                    /\ key' \notin {".", "C"})]_vars

\* 1 + 1 = + : the operator typed after the result leaves both flags set
C28_Witness ==
    /\ nkeys = 5
    /\ key = "+"
    /\ num_str0 = <<"2">>
    /\ num_str1 = <<"1">>
    /\ display_str = <<"2">>
    /\ last_key_was_operation
    /\ no_new_number_since_last_calc

\* C29: the sign key on a display "0" leaves the bare sign "-"; digits
\* typed after it are appended behind the sign until display_size digits
\* are shown, the sign not being counted; and  n a + b =  shows the number
\* (b - a) whenever it can be written with display_size digits.
C29_NegativeEntry ==
    /\ [][(Handled("n") /\ display_str = ZERO)
          => (display_str' = <<"-">> /\ ret' = <<"-">>)]_vars
    /\ [](\A m \in 1..(Len(typed) - 1) :
            (/\ m = Len(typed) - 1
             /\ typed[1] = "n"
             /\ AllDigits(Tail(typed)))
            => display_str =
                 <<"-">> \o SubSeq(Tail(typed), 1,
                                   IF m < display_size THEN m ELSE display_size))
    /\ [](\A p \in 3..(Len(typed) - 2) :
            (/\ typed[1] = "n"
             /\ typed[p] = "+"
             /\ typed[Len(typed)] = "="
             /\ AllDigits(SubSeq(typed, 2, p - 1))
             /\ AllDigits(SubSeq(typed, p + 1, Len(typed) - 1)))
            => LET x == Exact(SubSeq(typed, p + 1, Len(typed) - 1), "-",
                              SubSeq(typed, 2, p - 1), display_size)
               IN  Fits(x, display_size) => Shows(display_str, x.text))

\* n 1 + 1 0 = shows 9
C29_Witness ==
    /\ typed = <<"n", "1", "+", "1", "0", "=">>
    /\ num_str1 = <<"1", "0">>
    /\ num_str0 = <<"9">>
    /\ display_str = <<"9">>

\* C30: whenever both flags are clear the display holds at most
\* display_size digits; a display with more digits has
\* no_new_number_since_last_calc set, and the digit or decimal point handled
\* next discards it (the display becomes that digit, or "0.").  Such a
\* display is the result kept in num_str0, up to its sign and to the digits
\* a backspace has removed.
C30_DigitsBounded ==
    /\ []((~last_key_was_operation /\ ~no_new_number_since_last_calc)
          => DigitCount(display_str) <= display_size)
    /\ [](DigitCount(display_str) > display_size
          => /\ no_new_number_since_last_calc
             /\ Len(Unsigned(display_str)) <= Len(Unsigned(num_str0))
             /\ SubSeq(Unsigned(num_str0), 1, Len(Unsigned(display_str)))
                  = Unsigned(display_str))
    /\ [][(/\ DigitCount(display_str) > display_size
           /\ nkeys' = nkeys + 1
           /\ IsDigit(key'))
          => display_str' = <<key'>>]_vars
    /\ [][(DigitCount(display_str) > display_size /\ Handled("."))
          => display_str' = <<"0", ".">>]_vars

\* on a display of size 4, 1 0 1 * = showed the five digits of 10201, and
\* the decimal point typed next replaced them by "0."
C30_Witness ==
    /\ display_size = 4
    /\ typed = <<"1", "0", "1", "*", "=", ".">>
    /\ num_str0 = <<"1", "0", "2", "0", "1">>
    /\ display_str = <<"0", ".">>

\* C31: backspace and the sign key change the display only: both operands,
\* the operator and both flags stay as they were; so  a op b = e =  with e
\* the sign key or backspace shows the number ((a op b) op b) whenever both
\* results can be written with display_size digits.
C31_EditKeepsHistory ==
    /\ [][(Handled("b") \/ Handled("n"))
          => UNCHANGED <<num_str0, num_str1, operation_char,
                         last_key_was_operation,
                         no_new_number_since_last_calc>>]_vars
    /\ [](\A p \in 2..(Len(typed) - 4) :
            (/\ typed[Len(typed)] = "="
             /\ typed[Len(typed) - 1] \in {"n", "b"}
             /\ typed[Len(typed) - 2] = "="
             /\ typed[p] \in OperatorKeys
             /\ AllDigits(SubSeq(typed, 1, p - 1))
             /\ AllDigits(SubSeq(typed, p + 1, Len(typed) - 3)))
            => LET x == Exact(SubSeq(typed, 1, p - 1), typed[p],
                              SubSeq(typed, p + 1, Len(typed) - 3), display_size)
               IN  (Fits(x, display_size) /\ AllDigits(x.text)) =>
                     LET y == Exact(x.text, typed[p],
                                    SubSeq(typed, p + 1, Len(typed) - 3), display_size)
                     IN  Fits(y, display_size) => Shows(display_str, y.text))

\* 1 + 1 = n = shows 3: the sign put on the result 2 is not used
C31_Witness ==
    /\ typed = <<"1", "+", "1", "=", "n", "=">>
    /\ num_str1 = <<"1">>
    /\ num_str0 = <<"3">>
    /\ display_str = <<"3">>

\* C32: the sign key clears neither flag, so a sign typed while
\* last_key_was_operation or no_new_number_since_last_calc is set does not
\* survive the next digit: that digit leaves the display exactly the digit.
C32_SignLostOnFreshNumber ==
    /\ [][Handled("n")
          => UNCHANGED <<last_key_was_operation,
                         no_new_number_since_last_calc>>]_vars
    /\ [][(/\ key = "n"
           /\ last_key_was_operation \/ no_new_number_since_last_calc
           /\ nkeys' = nkeys + 1
           /\ IsDigit(key'))
          => (display_str' = <<key'>> /\ ret' = <<key'>>)]_vars

\* 1 + 1 = n 1 : the sign put on the result 2 is gone, the display shows 1
C32_Witness ==
    /\ typed = <<"1", "+", "1", "=", "n", "1">>
    /\ num_str0 = <<"2">>
    /\ display_str = <<"1">>
    /\ ~no_new_number_since_last_calc

\* C33: an update() (a step that leaves pin and now alone) reports a press
\* or a release exactly when the reading differs from current_state, equals
\* the reading of the update before, and more than debounce_ms have passed
\* since last_change_time, the time of the last update that saw the reading
\* change.  The update that sees the reading change reports nothing and
\* restarts the window, and no update inside the window reports anything.
C33_DebouncedReport ==
    /\ [][(pin' = pin /\ now' = now)
          => ((pressed' \/ released')
                <=> /\ pin # current_state
                    /\ pin = last_state
                    /\ now - last_change_time > debounce_ms)]_hardware
    /\ [][(pin' = pin /\ now' = now /\ pin # last_state)
          => (/\ ~pressed' /\ ~released'
              /\ last_change_time' = now
              /\ current_state' = current_state)]_hardware
    /\ [][(pin' = pin /\ now' = now /\ now - last_change_time' <= debounce_ms)
          => (~pressed' /\ ~released')]_hardware

\* a press reported by a button with a debounce time of 50 ms, 60 ms after
\* the update that saw the pin go low
C33_Witness ==
    /\ debounce_ms = DEBOUNCE_MS
    /\ pressed
    /\ pin = 0
    /\ current_state = 0
    /\ now - last_change_time = DEBOUNCE_MS + LOOP_DELAY_MS

\* C34: after an update() pressed is set exactly when that update switched
\* current_state to 0, and released exactly when it switched current_state
\* to 1; an update that leaves current_state alone leaves both flags clear.
\* The two flags are never set together, and a press is reported only from
\* the released state, so a button held down is reported once.
C34_EdgeTriggered ==
    /\ [][(pin' = pin /\ now' = now)
          => (/\ pressed' <=> (current_state' # current_state /\ current_state' = 0)
              /\ released' <=> (current_state' # current_state /\ current_state' = 1)
              /\ current_state' = current_state => (~pressed' /\ ~released'))]_hardware
    /\ [](~(pressed /\ released))
    /\ [](pressed => current_state = 0)
    /\ [](released => current_state = 1)
    /\ [](current_state \in {0, 1})

\* the button has been held for 80 ms: the press reported at 60 ms is no
\* longer flagged
C34_Witness ==
    /\ now - last_change_time = DEBOUNCE_MS + 3 * LOOP_DELAY_MS
    /\ debounce_ms = DEBOUNCE_MS
    /\ pin = 0
    /\ last_state = 0
    /\ current_state = 0
    /\ ~pressed
    /\ ~released

\* C35: while update() keeps being called and time keeps passing, a pin
\* that reads low against a debounced state that is high leads to a
\* reported press, unless the pin goes high again; and a pin that reads
\* high against a debounced state that is low leads to a reported release,
\* unless the pin goes low again.
C35_PressEventuallyReported ==
    /\ (pin = 0 /\ current_state = 1) ~> (pressed \/ pin = 1)
    /\ (pin = 1 /\ current_state = 0) ~> (released \/ pin = 0)

\* a release reported 60 ms after the update that saw the pin go high
C35_Witness ==
    /\ debounce_ms = DEBOUNCE_MS
    /\ released
    /\ pin = 1
    /\ last_state = 1
    /\ current_state = 1
    /\ now - last_change_time = DEBOUNCE_MS + LOOP_DELAY_MS

\* C36: every key event taken by the polling loop (a debounced press or a
\* serial character) is applied by exactly one call of parse followed by one
\* print_display of the string parse returned, and no other event is taken
\* before that print_display: the number of keys taken grows by one at a
\* time, only where process_key is called and only when every earlier key
\* has been printed; the engine changes nowhere else; a reported press is
\* handled with the character of its button; process_key prints only after
\* parse, and prints what parse returned; between parse and print_display
\* the loop does nothing else.  So wherever the loop is between two keys,
\* the string last sent to the renderer, and the strip it produced, are
\* those of the engine's current display.  The loop ends only with a
\* KeyboardInterrupt, which can stop the program inside parse, between the
\* two calls or inside print_display: the key taken last is then the only
\* one that was not printed.
C36_OneCallPerKey ==
    /\ [](/\ Len(typed) = nkeys
          /\ pc \in {"update", "pressed", "serial", "sleep_ms", "except"}
               => /\ running
                  /\ nprints = nkeys
                  /\ input_str = display_str
                  /\ strip = print_display(strip, display_str).strip
                  /\ nkeys > 0 => input_str = ret
          /\ pc = "pressed" => pressed
          /\ pc \in {"print_button", "print_serial"}
               => running /\ nkeys = nprints + 1 /\ ret = display_str
          /\ pc = "stopped" => nkeys \in {nprints, nprints + 1}
          /\ ~running /\ pc # "stopped" => nkeys = 0 /\ nprints = 0)
    /\ [][/\ nkeys' # nkeys \/ calc' # calc
               => /\ pc \in {"pressed", "serial"}
                  /\ nprints = nkeys
                  /\ nkeys' = nkeys + 1
                  /\ nprints' = nprints
                  /\ typed' = Append(typed, key')
                  /\ pc = "pressed" => key' = char
                  /\ pc' \in {IF pc = "pressed" THEN "print_button"
                               ELSE "print_serial", "stopped"}
          /\ nprints' # nprints \/ (running /\ input_str' # input_str)
               => /\ pc \in {"print_button", "print_serial"}
                  /\ nprints' = nprints + 1
                  /\ nkeys' = nkeys
                  /\ input_str' = ret
                  /\ display_str' = display_str
          /\ pc \in {"print_button", "print_serial"}
               => \/ nprints' = nprints + 1
                  \/ pc' = "stopped"
                  \/ pc' = pc /\ UNCHANGED <<vars, strip, input_str>>]_<<vars, hardware>>

\* The serial character 5 then a debounced press of the "+" button: two keys,
\* two renderings, the display shows the 5 and the loop goes on to the
\* serial line.
C36_Witness ==
    /\ running
    /\ pc = "serial"
    /\ pressed
    /\ char = "+"
    /\ typed = <<"5", "+">>
    /\ nprints = 2
    /\ input_str = <<"5">>

\* C37: print_display is right-justified and clears first: when the display's
\* last call is a print_display of k <= display_size digit characters, the k
\* rightmost positions show those digits in order (the segments of the
\* digit's pattern lit, the others and the decimal point off), and every LED
\* of every position to their left is off, whatever the strip showed before.
C37_RightJustified ==
    LET k == Len(input_str)
        Lit(pos, led) == strip[LEDS_PER_DIGIT * pos + led] # <<0, 0, 0>>
    IN  (/\ method = "print_display"
         /\ k <= display_size
         /\ \A i \in 1..k : IsDigit(input_str[i]))
        => \A pos \in 0..(display_size - 1) :
              LET j == pos - (display_size - k) + 1
              IN  IF j >= 1
                  THEN /\ \A led \in 1..(LEDS_PER_DIGIT - 1) :
                            Lit(pos, led)
                              = (DIGIT_ARRAY[DigitVal(input_str[j]) + 1][led] = 1)
                       /\ ~Lit(pos, LEDS_PER_DIGIT)
                  ELSE \A led \in 1..LEDS_PER_DIGIT : ~Lit(pos, led)

\* "00123" on nine positions, printed after another call: the leading zero
\* is shown at position 4, lit in the colour of the constructor, and position
\* 3 is dark.
C37_Witness ==
    /\ display_size = DISPLAY_SIZE
    /\ method = "print_display"
    /\ ncalls = 2
    /\ input_str = <<"0", "0", "1", "2", "3">>
    /\ strip[LEDS_PER_DIGIT * 4 + 1] = <<127, 127, 127>>
    /\ strip[LEDS_PER_DIGIT * 8 + 1] = <<0, 0, 0>>
    /\ \A led \in 1..LEDS_PER_DIGIT : strip[LEDS_PER_DIGIT * 3 + led] = <<0, 0, 0>>

\* C38: in print_display a "." takes no position of its own.  When the last
\* call is a print_display of digits and decimal points, each point following
\* a digit, the digits are shown at consecutive positions from the right, and
\* the decimal-point LED of a position is lit exactly when the digit shown
\* there is followed by a "." in the string (a trailing "." included); it is
\* off on every other position, the blank ones included.
C38_DecimalPointOnDigit ==
    LET n == Len(input_str)
        IsDigitAt(i) == IsDigit(input_str[i])
        Idx == SelectSeq([i \in 1..n |-> i], IsDigitAt)
        Lit(pos, led) == strip[LEDS_PER_DIGIT * pos + led] # <<0, 0, 0>>
    IN  (/\ method = "print_display"
         /\ \A i \in 1..n :
               \/ IsDigit(input_str[i])
               \/ input_str[i] = "." /\ i > 1 /\ IsDigit(input_str[i - 1]))
        => \A pos \in 0..(display_size - 1) :
              LET j == Len(Idx) - (display_size - pos) + 1
              IN  IF j >= 1
                  THEN /\ \A led \in 1..(LEDS_PER_DIGIT - 1) :
                            Lit(pos, led)
                              = (DIGIT_ARRAY[DigitVal(input_str[Idx[j]]) + 1][led] = 1)
                       /\ Lit(pos, LEDS_PER_DIGIT)
                            = (Idx[j] < n /\ input_str[Idx[j] + 1] = ".")
                  ELSE \A led \in 1..LEDS_PER_DIGIT : ~Lit(pos, led)

\* "3.14" on nine positions, printed in red at brightness 1.0: the 3 is at
\* position 6 with its decimal point lit, the 1 and the 4 follow without one,
\* position 5 is dark.
C38_Witness ==
    /\ display_size = DISPLAY_SIZE
    /\ method = "print_display"
    /\ red = 255
    /\ input_str = <<"3", ".", "1", "4">>
    /\ strip[LEDS_PER_DIGIT * 6 + LEDS_PER_DIGIT] = <<255, 0, 0>>
    /\ strip[LEDS_PER_DIGIT * 6 + 5] = <<255, 0, 0>>
    /\ strip[LEDS_PER_DIGIT * 7 + LEDS_PER_DIGIT] = <<0, 0, 0>>
    /\ strip[LEDS_PER_DIGIT * 8 + LEDS_PER_DIGIT] = <<0, 0, 0>>
    /\ strip[LEDS_PER_DIGIT * 5 + LEDS_PER_DIGIT] = <<0, 0, 0>>

\* C39: print_display shows only the digits of its input and ignores the
\* other characters: it returns, and the strip is the one the string without
\* them (its digits and decimal points alone) would give, so every digit of
\* "12abc34", "-5" or "1e+18" is shown, right-justified.
C39_NonDigitsIgnored ==
    LET Shown(c) == IsDigit(c) \/ c = "."
    IN  method = "print_display"
            => /\ display_exc = "none"
               /\ strip = print_display(strip, SelectSeq(input_str, Shown)).strip

=============================================================================
